---- MODULE Spec2Model ----
(***************************************************************************)
(* Model of the phish-defender ingestion pipeline:                         *)
(*   backend/app/services/ingestion.py  (ingest_mailbox, _process_message, *)
(*                                       run_ingestion)                    *)
(*   backend/app/jobs/scheduler.py      (_ingestion_job, start_scheduler)  *)
(*   backend/app/routers/settings.py    (pause_job, resume_job,            *)
(*                                       trigger_job)                      *)
(* Committed PostgreSQL storage is the tables emails, threat_indicators,   *)
(* email_audit_trail, audit_log, mailboxes and the app_settings singleton. *)
(* Every invocation of run_ingestion is a coroutine; coroutines interleave *)
(* at their awaits (network fetch, SELECT, flush, COMMIT).                 *)
(***************************************************************************)
EXTENDS Integers, Sequences, FiniteSets, TLC

(***************************************************************************)
(* Bounds of the model.                                                    *)
(***************************************************************************)
MaxRuns == 2      \* invocations of _ingestion_job / run_ingestion per behaviour
MaxSlots == 2     \* invocations in flight at the same time
MaxBatch == 2     \* messages in one fetched batch

(***************************************************************************)
(* Program constants.                                                      *)
(***************************************************************************)
ErrorLimit == 512         \* str(exc)[:512], "; ".join(errors)[:512]
MaxInstances == 1         \* APScheduler default max_instances of the "ingestion" job

None == "None"            \* Python None / SQL NULL

\* Lengths of the exception texts an adapter or the database can raise with:
\* a short one and one longer than the last_error column.
ExcLens == {30, 600}

\* mailboxes rows as seeded by _seed_db, in the order the SELECT returns them.
MailboxOrder == <<"A", "B">>
Mailboxes == {MailboxOrder[i] : i \in 1..Len(MailboxOrder)}
AddrLen == 1              \* len(mailbox.address) of the modelled addresses

\* Delta links the Graph API can hand back (None: the last page had neither a
\* nextLink nor a deltaLink).
DeltaLinks == {None, "d1"}

(***************************************************************************)
(* Raw Graph messages.  subject = None stands for a message whose JSON has *)
(* "subject": null: msg.get("subject", "(no subject)") is then None and    *)
(* classify raises TypeError on subject + " " + body_text.                 *)
(***************************************************************************)
MsgFrom(id, subject, body, sender_domain) ==
    [id |-> id, subject |-> subject, body |-> body,
     sender_domain |-> sender_domain]
Msg(id, subject, body) == MsgFrom(id, subject, body, <<"example", "com">>)
Messages ==
    { Msg("m1", "hi", "link"),
      Msg("m2", "hi", "plain"),
      Msg("m3", None, "plain"),
      Msg("",   "hi", "plain") }

SeqsUpTo(S, n) == UNION {[1..m -> S] : m \in 0..n}

(***************************************************************************)
(* The environment of a behaviour: the messages and delta links the Graph  *)
(* API can return, the lengths of the exception texts, and whether the     *)
(* callers keep to the single-flight assumption (no invocation is started  *)
(* while another is in flight).                                            *)
(***************************************************************************)
FullEnv ==
    [messages |-> Messages, delta_links |-> DeltaLinks, exc_lens |-> ExcLens,
     single_flight |-> TRUE]

\* Overlapping invocations, over a smaller choice of inputs.
OverlapEnv ==
    [messages |-> {Msg("m1", "hi", "link"), Msg("m2", "hi", "plain")},
     delta_links |-> {"d1"}, exc_lens |-> {},
     single_flight |-> FALSE]

Min(a, b) == IF a < b THEN a ELSE b

\* A nullable text column or Python str: its (abstract) text and its length.
\* text is the sequence of the tokens the string is made of.
Null == [null |-> TRUE, text |-> <<>>, len |-> 0]
Str(text, len) == [null |-> FALSE, text |-> text, len |-> len]

\* s[:512]
Truncate(s) == [s EXCEPT !.len = Min(s.len, ErrorLimit)]

\* A nullable timestamp column.
NoTime == 0

(***************************************************************************)
(* Strings of the classifier, the rules and the extractor.  A Python str   *)
(* is the sequence of the phrases (for a domain: the dot-separated labels) *)
(* it is made of; `x in s` for a keyword or pattern x is then "x is one of *)
(* the phrases of s", s1 + " " + s2 is concatenation, and lower() maps     *)
(* every phrase to its lower-case form.                                    *)
(***************************************************************************)
LowerPhrase(p) ==
    CASE p = "WIRE TRANSFER"       -> "wire transfer"
      [] p = "Verify Your Account" -> "verify your account"
      [] p = "Invoice Attached"    -> "invoice attached"
      [] p = "EVIL"                -> "evil"
      [] p = "Evil"                -> "evil"
      [] p = "Example"             -> "example"
      [] p = "RU"                  -> "ru"
      [] p = "PayPa1"              -> "paypa1"
      [] OTHER                     -> p

\* s.lower()
Lower(s) == [i \in 1..Len(s) |-> LowerPhrase(s[i])]

\* x in s
Contains(s, x) == \E i \in 1..Len(s) : s[i] = x

\* s[:n]
Prefix(s, n) == SubSeq(s, 1, Min(n, Len(s)))

\* The one-phrase string of a raw message field.
Words(field) == <<field>>

(***************************************************************************)
(* Python floats of classify (lines 87-138).  Every value the code can     *)
(* compute is within a few units in the last place of a multiple of 0.01:  *)
(* Float(c, d) is the double nearest to c/100, moved by d times 2^-56.     *)
(* The deviations are those of IEEE-754 binary64 round-to-nearest for the  *)
(* products 0.15 * n, 0.08 * n and for the sums the code forms, in the     *)
(* order it forms them; a product or sum that is not listed is exact       *)
(* (deviation 0 from deviation 0).                                         *)
(***************************************************************************)
Float(c, d) == [c |-> c, d |-> d]

\* The float a decimal literal or a JSON number with two decimals denotes.
Lit(c) == Float(c, 0)

\* x <= y
FLe(x, y) == x.c < y.c \/ (x.c = y.c /\ x.d <= y.d)

\* x >= y
FGe(x, y) == FLe(y, x)

\* min(x, y)
FMin(x, y) == IF FLe(y, x) THEN y ELSE x

MulDeviation == <<15, 3>> :> -4 @@ <<15, 6>> :> -8 @@ <<15, 9>> :> -16

AddDeviation ==
    <<15, 0, 8>> :> -2 @@ <<16, 0, 25>> :> 4 @@ <<20, 0, 10>> :> 4 @@
    <<24, 0, 10>> :> -4 @@ <<28, 0, 8>> :> 4 @@ <<30, 4, 8>> :> 4 @@
    <<32, 0, 10>> :> 4 @@ <<32, 0, 25>> :> 8 @@ <<33, 0, 8>> :> 4 @@
    <<33, 0, 10>> :> 4 @@ <<34, -4, 8>> :> 0 @@ <<35, 0, 10>> :> -4 @@
    <<36, 0, 10>> :> -4 @@ <<40, 0, 8>> :> 4 @@ <<40, 0, 20>> :> 8 @@
    <<41, 4, 8>> :> 4 @@ <<41, 4, 10>> :> 0 @@ <<42, 4, 8>> :> 0 @@
    <<43, 4, 8>> :> 0 @@ <<45, -4, 8>> :> -8 @@ <<45, -4, 10>> :> -8 @@
    <<45, -4, 20>> :> -8 @@ <<45, -4, 25>> :> 0 @@ <<46, -4, 8>> :> -8 @@
    <<48, 0, 8>> :> -8 @@ <<48, 0, 20>> :> -8 @@ <<55, -8, 8>> :> -8 @@
    <<57, 8, 8>> :> 0 @@ <<57, 8, 10>> :> 0 @@ <<58, 0, 8>> :> -8 @@
    <<59, 0, 8>> :> -8 @@ <<60, 0, 8>> :> -8 @@ <<60, 8, 8>> :> 0 @@
    <<60, 8, 10>> :> 8 @@ <<60, 8, 25>> :> 8 @@ <<65, -8, 8>> :> -8 @@
    <<65, -8, 10>> :> -8 @@ <<65, -8, 25>> :> -8 @@ <<68, -8, 8>> :> -8 @@
    <<68, -8, 10>> :> -8 @@ <<68, -8, 25>> :> -8 @@ <<69, 0, 8>> :> -8 @@
    <<69, 0, 10>> :> -8 @@ <<70, 0, 8>> :> -8 @@ <<70, 0, 10>> :> -8 @@
    <<70, 8, 8>> :> 0 @@ <<71, 0, 8>> :> -8 @@ <<73, 0, 8>> :> -8 @@
    <<75, -8, 8>> :> -8 @@ <<78, -8, 8>> :> -8 @@ <<79, -8, 8>> :> -8 @@
    <<80, -8, 8>> :> -8 @@ <<83, 0, 8>> :> -8 @@ <<85, 0, 8>> :> -8 @@
    <<85, 8, 8>> :> 0 @@ <<85, 8, 10>> :> 8 @@ <<90, -8, 8>> :> -8 @@
    <<90, -8, 10>> :> -8 @@ <<90, -8, 20>> :> -16 @@ <<90, -8, 25>> :> 0 @@
    <<93, -8, 8>> :> 0 @@ <<93, -8, 10>> :> 0 @@ <<95, 8, 8>> :> 0 @@
    <<100, -8, 8>> :> -16 @@ <<105, 0, 8>> :> 16 @@ <<105, 0, 10>> :> 16 @@
    <<110, -16, 8>> :> 0 @@ <<110, -16, 10>> :> 0 @@ <<110, -16, 25>> :> -16 @@
    <<110, 0, 8>> :> 16 @@ <<111, 0, 8>> :> 16 @@ <<115, 16, 8>> :> 16 @@
    <<130, 0, 8>> :> 16 @@ <<130, 0, 10>> :> 16 @@ <<135, -16, 8>> :> 0 @@
    <<135, -16, 10>> :> 0 @@ <<135, -16, 20>> :> -16 @@ <<135, -16, 25>> :> -16 @@
    <<135, 0, 8>> :> 16 @@ <<140, 16, 8>> :> 16 @@ <<155, -16, 8>> :> 0 @@
    <<155, -16, 10>> :> 0 @@ <<155, -16, 25>> :> -16 @@ <<155, 0, 8>> :> 16 @@
    <<160, -16, 8>> :> 0 @@ <<160, -16, 10>> :> 0 @@ <<160, 0, 8>> :> 16 @@
    <<180, -16, 8>> :> 0 @@ <<180, -16, 10>> :> 0 @@ <<180, 0, 8>> :> 16 @@
    <<185, 0, 8>> :> 16

\* (a / 100) * n for the literal a / 100
FMul(a, n) ==
    Float(a * n, IF <<a, n>> \in DOMAIN MulDeviation
                 THEN MulDeviation[<<a, n>>] ELSE 0)

\* x + a / 100 for the literal a / 100
FAdd(x, a) ==
    Float(x.c + a, IF <<x.c, x.d, a>> \in DOMAIN AddDeviation
                   THEN AddDeviation[<<x.c, x.d, a>>] ELSE 0)

\* Mutant of Round4: the score is returned as it was accumulated.
Round4_none(x) == x

\* round(x, 4): the double nearest to the 4-decimal value, which is c/100.
Round4(x) == Lit(x.c)

(***************************************************************************)
(* SimpleClassifier (lines 51-149)                                         *)
(***************************************************************************)
HIGH_KEYWORDS ==
    << "verify your account", "urgent action required", "password expired",
       "wire transfer", "confirm your identity",
       "your account has been suspended", "click here immediately",
       "login to restore", "account verification required",
       "we detected unusual activity" >>

LOW_KEYWORDS ==
    << "invoice attached", "delivery failed", "your package",
       "sign the document", "subscription renewal", "limited time offer",
       "you have been selected" >>

\* The last label of a domain that ends in one of the TLDs.
SUSPICIOUS_TLDS == {"ru", "xyz", "tk", "cn", "top", "club", "info"}

brand_patterns == <<"paypa1", "amaz0n", "micr0soft", "g00gle", "app1e">>

\* A reasoning line: its kind, the strings it lists and the number it quotes.
Line(kind, items, n) == [kind |-> kind, items |-> items, n |-> n]

\* domain_lower.endswith(tld) for some tld of the set: a dot and the label.
EndsWithTld(domain_lower) ==
    /\ Len(domain_lower) >= 2
    /\ domain_lower[Len(domain_lower)] \in SUSPICIOUS_TLDS

\* any(pat in domain_lower for pat in brand_patterns)
HasBrandPattern(domain_lower) ==
    \E i \in 1..Len(brand_patterns) : Contains(domain_lower, brand_patterns[i])

\* Mutant of Decide: the two lower categories change places.
Decide_backward(score, reasoning, high_threshold, low_threshold) ==
    IF FGe(score, high_threshold)
    THEN [category |-> "high_malicious", reasoning |-> reasoning]
    ELSE IF FGe(score, low_threshold)
    THEN [category |-> "safe",
          reasoning |-> IF reasoning = <<>>
                        THEN <<Line("none", <<>>, 0)>> ELSE reasoning]
    ELSE [category |-> "low_malicious", reasoning |-> reasoning]

\* Mutant of Decide: the default line is appended whenever no line was
\* produced, whatever the category.
Decide_default(score, reasoning, high_threshold, low_threshold) ==
    [category |-> IF FGe(score, high_threshold) THEN "high_malicious"
                  ELSE IF FGe(score, low_threshold) THEN "low_malicious"
                  ELSE "safe",
     reasoning |-> IF reasoning = <<>>
                   THEN <<Line("none", <<>>, 0)>> ELSE reasoning]

\* Lines 140-147: the category and the default reasoning line.
Decide(score, reasoning, high_threshold, low_threshold) ==
    IF FGe(score, high_threshold)
    THEN [category |-> "high_malicious", reasoning |-> reasoning]
    ELSE IF FGe(score, low_threshold)
    THEN [category |-> "low_malicious", reasoning |-> reasoning]
    ELSE [category |-> "safe",
          reasoning |-> IF reasoning = <<>>
                        THEN <<Line("none", <<>>, 0)>> ELSE reasoning]

\* The result carries, besides the returned triple, the score of line 138
\* the category was decided on.
classify(subject, body_text, sender_domain, urls, ips, high_threshold, low_threshold) ==
    LET text == Lower(subject \o body_text)
        matched_high == SelectSeq(HIGH_KEYWORDS, LAMBDA kw : Contains(text, kw))
        matched_low == SelectSeq(LOW_KEYWORDS, LAMBDA kw : Contains(text, kw))
        domain_lower == Lower(sender_domain)
        s1 == IF matched_high /= <<>>
              THEN FMul(15, Len(matched_high)) ELSE Lit(0)
        r1 == IF matched_high /= <<>>
              THEN <<Line("high_keywords", Prefix(matched_high, 3), 0)>>
              ELSE <<>>
        low == matched_low /= <<>> /\ matched_high = <<>>
        s2 == IF low THEN FMul(8, Len(matched_low)) ELSE s1
        r2 == IF low
              THEN Append(r1, Line("low_keywords", Prefix(matched_low, 3), 0))
              ELSE r1
        tld == EndsWithTld(domain_lower)
        s3 == IF tld THEN FAdd(s2, 20) ELSE s2
        r3 == IF tld
              THEN Append(r2, Line("tld",
                                   <<domain_lower[Len(domain_lower)]>>, 0))
              ELSE r2
        brand == HasBrandPattern(domain_lower)
        s4 == IF brand THEN FAdd(s3, 25) ELSE s3
        r4 == IF brand THEN Append(r3, Line("brand", sender_domain, 0)) ELSE r3
        s5 == IF ips /= <<>> THEN FAdd(s4, 10) ELSE s4
        r5 == IF ips /= <<>>
              THEN Append(r4, Line("ips", Prefix(ips, 3), 0)) ELSE r4
        s6 == IF Len(urls) > 5 THEN FAdd(s5, 8) ELSE s5
        r6 == IF Len(urls) > 5
              THEN Append(r5, Line("urls", <<>>, Len(urls))) ELSE r5
        score == FMin(s6, Lit(99))
        dec == Decide(score, r6, high_threshold, low_threshold)
    IN  [category |-> dec.category, confidence |-> Round4(score),
         reasoning |-> dec.reasoning, score |-> score]

(***************************************************************************)
(* extract_indicators (lines 157-178).  The content of a body is the       *)
(* sequence of its tokens: URLs (what _URL_RE matches), bare IP addresses  *)
(* and other words.  A URL token has the host urlparse gives for it and    *)
(* the rest of the URL.  Hosts are numbered: 0 is no host (urlparse gives  *)
(* none, or raises), -h is host h written in upper case, and the hosts     *)
(* from IpBase on are dotted quads.                                        *)
(***************************************************************************)
UrlCap == 50
DomainCap == 50
IpCap == 20

Url(host, path) == [kind |-> "url", host |-> host, path |-> path]
Ip(addr) == [kind |-> "ip", host |-> addr, path |-> 0]
Word(n) == [kind |-> "word", host |-> 0, path |-> n]

\* Hosts that are dotted quads: _IP_RE matches them inside a URL as well.
IpBase == 1000
IsIpHost(h) == h >= IpBase

\* netloc.lower()
LowerHost(h) == IF h < 0 THEN 0 - h ELSE h

\* Mutant of Dedup: repeated elements are kept.
Dedup_keep(s) == s

\* list(dict.fromkeys(s)): the first occurrence of every element, in order.
Dedup(s) ==
    LET kept[i \in 0..Len(s)] ==
            IF i = 0 THEN <<>>
            ELSE IF \E j \in 1..(i - 1) : s[j] = s[i]
            THEN kept[i - 1] ELSE Append(kept[i - 1], s[i])
    IN  kept[Len(s)]

\* _URL_RE.findall(content)
FindUrls(content) == SelectSeq(content, LAMBDA t : t.kind = "url")

\* _IP_RE.findall(content)
RECURSIVE FindIps(_)
FindIps(content) ==
    IF content = <<>> THEN <<>>
    ELSE (IF Head(content).kind = "ip" \/
             (Head(content).kind = "url" /\ IsIpHost(Head(content).host))
          THEN <<Head(content).host>> ELSE <<>>)
         \o FindIps(Tail(content))

\* Lines 168-175: netloc.lower() of every URL that has one.
RECURSIVE Netlocs(_)
Netlocs(urls) ==
    IF urls = <<>> THEN <<>>
    ELSE (IF Head(urls).host /= 0
          THEN <<LowerHost(Head(urls).host)>> ELSE <<>>)
         \o Netlocs(Tail(urls))

\* html and text are contents; None is the empty content (html or "").
extract_indicators(html, text) ==
    LET content == html \o text
        urls == Dedup(FindUrls(content))
        ips == Dedup(FindIps(content))
        domains == Dedup(Netlocs(urls))
    IN  [urls |-> Prefix(urls, UrlCap),
         domains |-> Prefix(domains, DomainCap),
         ips |-> Prefix(ips, IpCap)]

(***************************************************************************)
(* apply_custom_rules (lines 183-205).  A rule value is a str: for a       *)
(* domain rule the labels of the domain, for a keyword rule the phrases of *)
(* the keyword.                                                            *)
(***************************************************************************)
\* x in s for strings x and s
Within(x, s) ==
    \E i \in 1..(Len(s) + 1) :
        /\ i + Len(x) - 1 <= Len(s)
        /\ SubSeq(s, i, i + Len(x) - 1) = x

Rule(rule_type, value, force_category, is_active) ==
    [rule_type |-> rule_type, value |-> value,
     force_category |-> force_category, is_active |-> is_active]

\* Lines 196-204: the test of one active rule.
RuleFires(rule, subject, body_text, sender_domain) ==
    IF rule.rule_type = "domain"
    THEN Lower(sender_domain) = Lower(rule.value)
    ELSE IF rule.rule_type = "keyword"
    THEN Within(Lower(rule.value), Lower(subject \o body_text))
    ELSE FALSE

\* Mutant of apply_custom_rules: is_active is not looked at.
apply_custom_rules_inactive(subject, body_text, sender_domain, rules) ==
    LET hits == {i \in 1..Len(rules) :
                    RuleFires(rules[i], subject, body_text, sender_domain)}
    IN  IF hits = {} THEN None
        ELSE rules[CHOOSE i \in hits : \A j \in hits : i <= j].force_category

RECURSIVE apply_custom_rules(_, _, _, _)
apply_custom_rules(subject, body_text, sender_domain, rules) ==
    IF rules = <<>> THEN None
    ELSE IF ~Head(rules).is_active
    THEN apply_custom_rules(subject, body_text, sender_domain, Tail(rules))
    ELSE IF RuleFires(Head(rules), subject, body_text, sender_domain)
    THEN Head(rules).force_category
    ELSE apply_custom_rules(subject, body_text, sender_domain, Tail(rules))

(***************************************************************************)
(* _process_message, lines 300-348: the Email the message is stored as.    *)
(***************************************************************************)
\* The tokens of the body of a raw message of the model.
Content(body) ==
    IF body = "link" THEN <<Url(1, 1)>> ELSE <<>>

\* Mutant of Forced: the note is appended after the heuristic lines.
Forced_appended(c, forced) ==
    IF forced /= None
    THEN [category |-> forced,
          reasoning |-> Append(c.reasoning, Line("forced", <<forced>>, 0))]
    ELSE [category |-> c.category, reasoning |-> c.reasoning]

\* Lines 329-331
Forced(c, forced) ==
    IF forced /= None
    THEN [category |-> forced,
          reasoning |-> <<Line("forced", <<forced>>, 0)>> \o c.reasoning]
    ELSE [category |-> c.category, reasoning |-> c.reasoning]

\* Lines 302-331.  ind is the result of the call of line 309, cf the results
\* of the calls of lines 312 and 323, each made once.
Classified(msg, rules, th) ==
    CHOOSE row \in
        { [ai_category |-> Forced(cf[1], cf[2]).category,
           confidence_score |-> cf[1].confidence,
           ai_reasoning |-> Forced(cf[1], cf[2]).reasoning] :
          cf \in { << classify(Words(msg.subject), Words(msg.body),
                               msg.sender_domain, ind.urls, ind.ips,
                               th.high, th.low),
                      apply_custom_rules(Words(msg.subject), Words(msg.body),
                                         msg.sender_domain, rules) >> :
                   ind \in {extract_indicators(<<>>, Content(msg.body))} } } :
        TRUE

\* Lines 309 and 353-358: the threat_indicators rows of a message, without
\* the email id.
Indicators(body) ==
    LET ind == extract_indicators(<<>>, Content(body))
    IN  [i \in 1..Len(ind.urls) |->
            [indicator_type |-> "url", value |-> ind.urls[i]]]
        \o [i \in 1..Len(ind.domains) |->
               [indicator_type |-> "domain",
                value |-> [kind |-> "domain", host |-> ind.domains[i], path |-> 0]]]
        \o [i \in 1..Len(ind.ips) |->
               [indicator_type |-> "ip", value |-> Ip(ind.ips[i])]]

\* AppSettings column defaults (models/settings.py).
DefaultThresholds == [high |-> Lit(80), low |-> Lit(50)]

\* No function call has been made.
NoCall == [fn |-> None, args |-> <<>>, result |-> <<>>]

MaxRequests == 3     \* threshold requests received in one behaviour
MaxConnections == 2  \* threshold requests in flight at a time

\* A request handler that is not running
NoRequest == [pc |-> "done", body |-> <<>>, row |-> <<>>]

NoRequests == [received |-> 0, conn |-> [c \in 1..MaxConnections |-> NoRequest]]

VARIABLES
    emails,             \* committed rows of table emails (Email.id = position)
    threat_indicators,  \* committed rows of table threat_indicators
    audit_trail,        \* committed rows of table email_audit_trail
    audit_log,          \* committed rows of table audit_log
    mailboxes,          \* committed rows of table mailboxes, by address
    app_settings,       \* the committed AppSettings singleton row
    configured,         \* Settings.graph_api_configured (fixed per process)
    env,                \* what the environment can do in this behaviour
    nruns,              \* invocations started so far
    run,                \* per invocation: position and locals of the coroutine
    custom_rules,       \* committed rows of table custom_rules, in storage order
    thresholds,         \* the two threshold columns of the AppSettings row
    call,               \* the last call of a pure function: arguments and result
    requests            \* PATCH /api/settings/thresholds requests in flight

vars == <<emails, threat_indicators, audit_trail, audit_log, mailboxes,
          app_settings, configured, env, nruns, run, custom_rules,
          thresholds, call, requests>>

\* What the ingestion pipeline and the job controls never write.
others == <<custom_rules, thresholds, call, requests>>

\* The coroutines in flight; an invocation takes the place of a finished one.
Runs == 1..MaxSlots

\* History of the last finished poll of a run: how ingest_mailbox ended, how
\* many messages of its batch could be persisted, the value of `ingested` at
\* its end, what run_ingestion received from it and how many emails rows its
\* transaction committed.
NoPoll == [mailbox |-> None, outcome |-> None, again |-> FALSE,
           ingestible |-> 0, constructed |-> 0, returned |-> 0, stored |-> 0]

\* Locals of one poll (ingest_mailbox) before it starts.
FreshPoll == [batch |-> <<>>, k |-> 0, new_delta |-> None, ingested |-> 0,
              pending |-> <<>>, poisoned |-> FALSE, again |-> FALSE,
              rules |-> <<>>]

FreshRun ==
    [pc |-> "none", id |-> 0, origin |-> None, snap |-> <<>>, todo |-> <<>>,
     poll |-> FreshPoll, last |-> NoPoll,
     outcome |-> [m \in Mailboxes |-> None],
     mailboxes_processed |-> 0, total_ingested |-> 0, errors |-> <<>>,
     exc |-> None, settings_row |-> DefaultThresholds]

ActivePcs == {"load", "poll", "msg", "blocked", "commit", "finalize"}

\* _ingestion_job or the background task has started and not ended.
InFlight(r) == run[r].pc \in ActivePcs \cup {"start"}

\* The callers' side of the single-flight assumption.
MayStart ==
    /\ nruns < MaxRuns
    /\ \E r \in Runs : ~InFlight(r)
    /\ ~env.single_flight \/ \A r \in Runs : ~InFlight(r)

FreeSlot == CHOOSE r \in Runs : ~InFlight(r) /\ \A q \in 1..(r - 1) : InFlight(q)

\* The locals of invocation number n at its start.
NewRun(n, origin, pc) == [FreshRun EXCEPT !.id = n, !.origin = origin, !.pc = pc]

\* run_ingestion has been entered and has not returned or raised.
Active(r) == run[r].pc \in ActivePcs

StoredIds == {emails[i].graph_message_id : i \in 1..Len(emails)}

\* graph_message_ids INSERTed (flushed) by the open transaction of run r.
HeldBy(r) == {run[r].poll.pending[i].id : i \in 1..Len(run[r].poll.pending)}

\* A message _process_message can persist: it has a remote id and a subject.
Ingestible(msg) == msg.id /= "" /\ msg.subject /= None

NumIngestible(b) == Cardinality({i \in 1..Len(b) : Ingestible(b[i])})

\* History of a poll that ended with `outcome`.
PollEnded(rr, outcome, count, stored) ==
    [mailbox |-> Head(rr.todo), outcome |-> outcome, again |-> rr.poll.again,
     ingestible |-> NumIngestible(rr.poll.batch),
     constructed |-> rr.poll.ingested, returned |-> count, stored |-> stored]

\* The mailboxes invocation r has called ingest_mailbox for.
Attempted(r) == {m \in Mailboxes : run[r].outcome[m] /= None}

\* Every message of batch b that can be persisted already is.
AllStored(b) == \A i \in 1..Len(b) : Ingestible(b[i]) => b[i].id \in StoredIds

HeldByOther(r, g) == \E q \in Runs : q /= r /\ g \in HeldBy(q)

InitStorage ==
    /\ emails = <<>>
    /\ threat_indicators = <<>>
    /\ audit_trail = <<>>
    /\ audit_log = <<>>
    /\ mailboxes = [m \in Mailboxes |->
            [is_active |-> TRUE, delta_link |-> None,
             last_polled_at |-> NoTime, last_error |-> Null]]
    /\ app_settings = [job_status |-> "idle", job_last_run |-> NoTime,
                       job_error_message |-> Null]
    /\ configured \in BOOLEAN
    /\ nruns = 0
    /\ run = [r \in Runs |-> FreshRun]
    /\ custom_rules = <<>>
    /\ thresholds = DefaultThresholds
    /\ call = NoCall
    /\ requests = NoRequests

Init == InitStorage /\ env = FullEnv

InitOverlap == InitStorage /\ env = OverlapEnv

(***************************************************************************)
(* Exceptions: the text str(exc) gives and its length.                     *)
(***************************************************************************)
Exc(kind, len) == Str(<<kind>>, len)
FetchErrors == {Exc("HTTPStatusError", n) : n \in env.exc_lens}
DbErrors == {Exc("OperationalError", n) : n \in env.exc_lens}

\* datetime.now(timezone.utc) in invocation r, to the resolution of the model:
\* invocations are numbered in the order they start.
Now(r) == run[r].id

\* The ORM's UPDATE of a row that was loaded as `loaded` and now has the
\* attribute values `new`: only the columns whose value changed since the load
\* are written; the others keep what the database holds.
OrmUpdate(stored, loaded, new) ==
    [c \in DOMAIN stored |-> IF new[c] /= loaded[c] THEN new[c] ELSE stored[c]]

RECURSIVE SumLen(_)
SumLen(s) == IF s = <<>> THEN 0 ELSE Head(s).len + SumLen(Tail(s))

\* The addresses that survive "; ".join(errors)[:512]: the error of a mailbox
\* starts with its address, at offset off.
RECURSIVE JoinedNames(_, _)
JoinedNames(errs, off) ==
    IF errs = <<>> THEN <<>>
    ELSE (IF off + AddrLen <= ErrorLimit THEN <<Head(errs).text[1]>> ELSE <<>>)
         \o JoinedNames(Tail(errs), off + Head(errs).len + 2)

\* "; ".join(summary["errors"])[:512]
JoinErrors(errs) ==
    Truncate(Str(JoinedNames(errs, 0), SumLen(errs) + 2 * (Len(errs) - 1)))

\* f"{mailbox.address}: {exc}"
ErrLine(m, e) == Str(<<m>> \o e.text, AddrLen + 2 + e.len)

(***************************************************************************)
(* scheduler.py: the interval job.  APScheduler starts _ingestion_job only *)
(* while fewer than max_instances instances of the job are running.        *)
(***************************************************************************)
SchedInstances ==
    Cardinality({r \in Runs : /\ run[r].origin = "sched"
                              /\ run[r].pc \in ActivePcs \cup {"start"}})

\* _ingestion_job up to the call of run_ingestion: the two skip guards.
ingestion_job_guard ==
    IF ~configured THEN "skipped"
    ELSE IF app_settings.job_status = "paused" THEN "skipped"
    ELSE "start"

\* start_scheduler's interval trigger fires _ingestion_job.
ingestion_job ==
    /\ MayStart
    /\ SchedInstances < MaxInstances
    /\ nruns' = nruns + 1
    /\ run' = [run EXCEPT ![FreeSlot] =
                  NewRun(nruns + 1, "sched", ingestion_job_guard)]
    /\ UNCHANGED others
    /\ UNCHANGED <<emails, threat_indicators, audit_trail, audit_log, mailboxes,
                   app_settings, configured, env>>

\* What trigger_job requires of the stored job state before it adds the task.
trigger_job_guard == TRUE

\* POST /api/settings/job/trigger: background_tasks.add_task(run_ingestion).
trigger_job ==
    /\ MayStart
    /\ trigger_job_guard
    /\ nruns' = nruns + 1
    /\ run' = [run EXCEPT ![FreeSlot] = NewRun(nruns + 1, "manual", "start")]
    /\ UNCHANGED others
    /\ UNCHANGED <<emails, threat_indicators, audit_trail, audit_log, mailboxes,
                   app_settings, configured, env>>

\* POST /api/settings/job/pause
pause_job ==
    /\ app_settings' = [app_settings EXCEPT !.job_status = "paused"]
    /\ UNCHANGED others
    /\ UNCHANGED <<emails, threat_indicators, audit_trail, audit_log, mailboxes,
                   configured, env, nruns, run>>

\* POST /api/settings/job/resume
resume_job ==
    /\ app_settings' = [app_settings EXCEPT !.job_status = "idle"]
    /\ UNCHANGED others
    /\ UNCHANGED <<emails, threat_indicators, audit_trail, audit_log, mailboxes,
                   configured, env, nruns, run>>

(***************************************************************************)
(* run_ingestion                                                           *)
(***************************************************************************)
\* Lines 390-397: load the AppSettings row, set job_status = "running", commit.
\* (The row always exists: _seed_db creates it at startup.)
run_start(r) ==
    /\ run[r].pc = "start"
    /\ app_settings' = [app_settings EXCEPT !.job_status = "running"]
    /\ run' = [run EXCEPT ![r].pc = "load", ![r].settings_row = thresholds]
    /\ UNCHANGED others
    /\ UNCHANGED <<emails, threat_indicators, audit_trail, audit_log, mailboxes,
                   configured, env, nruns>>

ActiveOrder == SelectSeq(MailboxOrder, LAMBDA m : mailboxes[m].is_active)

\* Lines 403-421: load the active mailboxes (the run keeps these objects, with
\* the delta links they had now), then the credentials guard: not configured
\* writes job_status = "idle" and returns the empty summary.
load_mailboxes(r) ==
    /\ run[r].pc = "load"
    /\ IF configured
       THEN /\ run' = [run EXCEPT ![r].snap = mailboxes,
                                  ![r].todo = ActiveOrder,
                                  ![r].pc = IF ActiveOrder = <<>>
                                            THEN "finalize" ELSE "poll"]
            /\ UNCHANGED app_settings
       ELSE /\ run' = [run EXCEPT ![r].pc = "done"]
            /\ app_settings' = [app_settings EXCEPT !.job_status = "idle"]
    /\ UNCHANGED others
    /\ UNCHANGED <<emails, threat_indicators, audit_trail, audit_log, mailboxes,
                   configured, env, nruns>>

\* Mutant of Returned: the summary counts every message of the batch that can
\* be persisted, the ones already stored included.
Returned_fetched(rr, outcome, count, stored) ==
    [rr EXCEPT !.todo = Tail(@),
               !.poll = FreshPoll,
               !.last = PollEnded(rr, outcome, count, stored),
               !.outcome[Head(rr.todo)] = outcome,
               !.total_ingested = @ + NumIngestible(rr.poll.batch),
               !.mailboxes_processed = @ + 1,
               !.pc = IF Tail(rr.todo) = <<>> THEN "finalize" ELSE "poll"]

\* Mutant of Returned: after the first mailbox returned, the loop over the
\* mailboxes is left for the final status write.
Returned_early(rr, outcome, count, stored) ==
    [rr EXCEPT !.todo = Tail(@),
               !.poll = FreshPoll,
               !.last = PollEnded(rr, outcome, count, stored),
               !.outcome[Head(rr.todo)] = outcome,
               !.total_ingested = @ + count,
               !.mailboxes_processed = @ + 1,
               !.pc = "finalize"]

\* run_ingestion lines 425-427 after ingest_mailbox returned `count`.
Returned(rr, outcome, count, stored) ==
    [rr EXCEPT !.todo = Tail(@),
               !.poll = FreshPoll,
               !.last = PollEnded(rr, outcome, count, stored),
               !.outcome[Head(rr.todo)] = outcome,
               !.total_ingested = @ + count,
               !.mailboxes_processed = @ + 1,
               !.pc = IF Tail(rr.todo) = <<>> THEN "finalize" ELSE "poll"]

\* run_ingestion lines 428-431 after ingest_mailbox raised e and the handler
\* could format the error.
Caught(rr, outcome, e) ==
    [rr EXCEPT !.todo = Tail(@),
               !.poll = FreshPoll,
               !.last = PollEnded(rr, outcome, 0, 0),
               !.outcome[Head(rr.todo)] = outcome,
               !.errors = Append(@, ErrLine(Head(rr.todo), e)),
               !.pc = IF Tail(rr.todo) = <<>> THEN "finalize" ELSE "poll"]

(***************************************************************************)
(* ingest_mailbox                                                          *)
(***************************************************************************)
\* Lines 217-222: the SELECT of the active rules is outside the try block; a
\* database error there leaves ingest_mailbox as an exception.  The mailbox
\* object is still loaded and detached, so run_ingestion formats the error.
rules_query_fails(r) ==
    /\ run[r].pc = "poll"
    /\ \E e \in DbErrors :
          run' = [run EXCEPT ![r] = Caught(run[r], "rules_failed", e)]
    /\ UNCHANGED others
    /\ UNCHANGED <<emails, threat_indicators, audit_trail, audit_log, mailboxes,
                   app_settings, configured, env, nruns>>

\* The mailbox row after the error branch's second session committed
\* (lines 270-273): only last_error was modified on the object.
ErrorBranchRow(stored, loaded, e) ==
    OrmUpdate(stored, loaded, [loaded EXCEPT !.last_error = Truncate(e)])

\* Lines 225-229 raise: rollback, last_error = str(exc)[:512] is committed by
\* a second session, and ingest_mailbox returns ingested (0) normally.
fetch_fails(r) ==
    /\ run[r].pc = "poll"
    /\ LET m == Head(run[r].todo) IN
       \E e \in FetchErrors :
          /\ mailboxes' = [mailboxes EXCEPT
                              ![m] = ErrorBranchRow(@, run[r].snap[m], e)]
          /\ run' = [run EXCEPT ![r] = Returned(run[r], "fetch_failed", 0, 0)]
    /\ UNCHANGED others
    /\ UNCHANGED <<emails, threat_indicators, audit_trail, audit_log,
                   app_settings, configured, env, nruns>>

\* Lines 225-229 return (messages, new_delta).
fetch_returns(r) ==
    /\ run[r].pc = "poll"
    /\ \E b \in SeqsUpTo(env.messages, MaxBatch), nd \in env.delta_links :
          run' = [run EXCEPT
                     ![r].poll = [FreshPoll EXCEPT !.batch = b, !.k = 1,
                                                   !.new_delta = nd,
                                                   !.again = AllStored(b),
                                                   !.rules = custom_rules],
                     ![r].pc = IF b = <<>> THEN "commit" ELSE "msg"]
    /\ UNCHANGED others
    /\ UNCHANGED <<emails, threat_indicators, audit_trail, audit_log, mailboxes,
                   app_settings, configured, env, nruns>>

(***************************************************************************)
(* _process_message                                                        *)
(***************************************************************************)
\* Mutant of IsDuplicate: the de-duplication SELECT finds nothing.
IsDuplicate_never(r, g) == FALSE

\* Lines 293-298: SELECT Email.id WHERE graph_message_id = g, inside the
\* poll's transaction: it sees the committed rows and the rows this
\* transaction has already flushed (line 350).
IsDuplicate(r, g) == g \in StoredIds \/ g \in HeldBy(r)

\* Mutant of UniqueIndex: the column is declared without unique=True.
UniqueIndex_absent(r, g) == "ok"

\* Email.graph_message_id is unique=True (models/email.py:34): the INSERT of a
\* second row with the same id fails when the first one is committed and
\* waits for the other transaction to end when it is not.
UniqueIndex(r, g) ==
    IF g \in StoredIds THEN "violation"
    ELSE IF HeldByOther(r, g) THEN "wait"
    ELSE "ok"

\* The poll's locals after the loop body for message k has run.
NextMessage(p) == [p EXCEPT !.k = @ + 1]

\* Mutant of AfterMessage: a message that raised ends the loop.
AfterMessage_break(rr, p) ==
    [rr EXCEPT !.poll = NextMessage(p),
               !.pc = IF p.k >= Len(p.batch) \/ p.batch[p.k].subject = None
                      THEN "commit" ELSE "msg"]

AfterMessage(rr, p) ==
    [rr EXCEPT !.poll = NextMessage(p),
               !.pc = IF p.k >= Len(p.batch) THEN "commit" ELSE "msg"]

\* db.add(email); await db.flush() succeeded: the row is in the transaction,
\* _process_message returns 1.
Flushed(p, msg) ==
    [p EXCEPT !.pending = Append(@, msg), !.ingested = @ + 1]

\* A failed flush rolls the database transaction back and leaves the Session
\* unusable until rollback(): every later statement of the poll raises.
FlushFailed(p) == [p EXCEPT !.pending = <<>>, !.poisoned = TRUE]

\* Mutant of process_outcome: a message without a remote id is processed
\* like any other.
process_outcome_noid(r, msg) ==
    IF run[r].poll.poisoned THEN "raise"
    ELSE IF IsDuplicate(r, msg.id) THEN "skip"
    ELSE IF msg.subject = None THEN "raise"
    ELSE "insert"

\* What _process_message does with message msg: "skip" (return 0), "raise"
\* (an exception the loop of ingest_mailbox catches and logs) or "insert".
process_outcome(r, msg) ==
    IF msg.id = "" THEN "skip"                       \* lines 289-291
    ELSE IF run[r].poll.poisoned THEN "raise"        \* the SELECT raises
    ELSE IF IsDuplicate(r, msg.id) THEN "skip"       \* lines 294-298
    ELSE IF msg.subject = None THEN "raise"          \* classify: TypeError
    ELSE "insert"

\* One iteration of the loop of lines 231-247.
process_message(r) ==
    /\ run[r].pc = "msg"
    /\ LET p   == run[r].poll
           msg == p.batch[p.k]
           out == process_outcome(r, msg)
       IN  IF out /= "insert"
           THEN run' = [run EXCEPT ![r] = AfterMessage(run[r], p)]
           ELSE IF UniqueIndex(r, msg.id) = "wait"
           THEN run' = [run EXCEPT ![r].pc = "blocked"]
           ELSE IF UniqueIndex(r, msg.id) = "violation"
           THEN run' = [run EXCEPT ![r] = AfterMessage(run[r], FlushFailed(p))]
           ELSE run' = [run EXCEPT ![r] = AfterMessage(run[r], Flushed(p, msg))]
    /\ UNCHANGED others
    /\ UNCHANGED <<emails, threat_indicators, audit_trail, audit_log, mailboxes,
                   app_settings, configured, env, nruns>>

\* The INSERT of line 350 that waited on another transaction's row goes on
\* once that transaction has committed (IntegrityError) or rolled back.
flush_unblocked(r) ==
    /\ run[r].pc = "blocked"
    /\ LET p   == run[r].poll
           msg == p.batch[p.k]
       IN  /\ UniqueIndex(r, msg.id) /= "wait"
           /\ IF UniqueIndex(r, msg.id) = "violation"
              THEN run' = [run EXCEPT ![r] = AfterMessage(run[r], FlushFailed(p))]
              ELSE run' = [run EXCEPT ![r] = AfterMessage(run[r], Flushed(p, msg))]
    /\ UNCHANGED others
    /\ UNCHANGED <<emails, threat_indicators, audit_trail, audit_log, mailboxes,
                   app_settings, configured, env, nruns>>

WaitsFor(r, q) ==
    /\ run[r].pc = "blocked"
    /\ run[r].poll.batch[run[r].poll.k].id \in HeldBy(q)

\* Two INSERTs waiting on each other: PostgreSQL aborts one of them.
deadlock_detected(r) ==
    /\ \E q \in Runs : q /= r /\ WaitsFor(r, q) /\ WaitsFor(q, r)
    /\ run' = [run EXCEPT ![r] = AfterMessage(run[r], FlushFailed(run[r].poll))]
    /\ UNCHANGED others
    /\ UNCHANGED <<emails, threat_indicators, audit_trail, audit_log, mailboxes,
                   app_settings, configured, env, nruns>>

(***************************************************************************)
(* ingest_mailbox, lines 249-275: the commit and the error branch          *)
(***************************************************************************)
\* Lines 334-348; c is what lines 302-331 computed for the message.
EmailRow(msg, m, rules, th) ==
    CHOOSE row \in
        { [graph_message_id |-> msg.id, mailbox_address |-> m,
           ai_category |-> c.ai_category,
           confidence_score |-> c.confidence_score,
           ai_reasoning |-> c.ai_reasoning,
           review_status |-> "pending",
           analyst_category |-> None, analyst_override_reason |-> None,
           reviewed_by |-> None, reviewed_at |-> NoTime] :
          c \in {Classified(msg, rules, th)} } :
        TRUE

\* Lines 353-358, for the email with id eid
RECURSIVE IndicatorRows(_, _)
IndicatorRows(pending, base) ==
    IF pending = <<>> THEN <<>>
    ELSE LET inds == Indicators(Head(pending).body)
         IN  [i \in 1..Len(inds) |->
                 [email_id |-> base + 1,
                  indicator_type |-> inds[i].indicator_type,
                  value |-> inds[i].value]]
             \o IndicatorRows(Tail(pending), base + 1)

\* Mutant of TrailRows: no "ingested" entry is written.
TrailRows_none(pending, base) == <<>>

\* Lines 361-369
TrailRows(pending, base) ==
    [i \in 1..Len(pending) |->
        [email_id |-> base + i, action |-> "ingested", actor |-> "system"]]

\* Mutant of AuditLogRows: the row is written for every poll that commits.
AuditLogRows_always(m, ingested) ==
    << [analyst |-> "system", action |-> "ingestion",
        count |-> ingested, mailbox |-> m] >>

\* Lines 256-263
AuditLogRows(m, ingested) ==
    IF ingested > 0
    THEN << [analyst |-> "system", action |-> "ingestion",
             count |-> ingested, mailbox |-> m] >>
    ELSE << >>

\* Mutant of PolledRow: a poll for which the adapter returned no delta link
\* keeps the stored one.
PolledRow_keep(loaded, nd, now) ==
    [loaded EXCEPT !.delta_link = IF nd = None THEN @ ELSE nd,
                   !.last_polled_at = now, !.last_error = Null]

\* Lines 250-253: the mailbox object as flushed by the commit.
PolledRow(loaded, nd, now) ==
    [loaded EXCEPT !.delta_link = nd, !.last_polled_at = now,
                   !.last_error = Null]

\* Line 265 succeeds: everything the transaction holds becomes visible.
poll_commit(r) ==
    /\ run[r].pc = "commit"
    /\ ~run[r].poll.poisoned
    /\ LET p == run[r].poll
           m == Head(run[r].todo)
           base == Len(emails)
       IN  /\ emails' = emails \o
                  [i \in 1..Len(p.pending) |->
                      EmailRow(p.pending[i], m, p.rules, run[r].settings_row)]
           /\ threat_indicators' =
                  threat_indicators \o IndicatorRows(p.pending, base)
           /\ audit_trail' = audit_trail \o TrailRows(p.pending, base)
           /\ audit_log' = audit_log \o AuditLogRows(m, p.ingested)
           /\ mailboxes' = [mailboxes EXCEPT ![m] =
                  OrmUpdate(@, run[r].snap[m],
                            PolledRow(run[r].snap[m], p.new_delta, Now(r)))]
           /\ run' = [run EXCEPT ![r] =
                         Returned(run[r], "committed", p.ingested, Len(p.pending))]
    /\ UNCHANGED others
    /\ UNCHANGED <<app_settings, configured, env, nruns>>

\* Mutant of CommitErrorBranch: rollback() leaves the mailbox object as it
\* is in memory, and the second session commits it with the new delta link.
CommitErrorBranch_unexpired(stored, loaded, nd, now, e) ==
    [raises |-> FALSE,
     row |-> OrmUpdate(stored, loaded,
                       [loaded EXCEPT !.delta_link = nd, !.last_polled_at = now,
                                      !.last_error = Truncate(e)])]

(***************************************************************************)
(* Line 265 raises.  The mailbox object was added to the session at line   *)
(* 253, and Session.rollback() (line 268) expires every object of the      *)
(* session whatever expire_on_commit says.  The read of mailbox.address on *)
(* line 269 is then a lazy load on an AsyncSession outside a greenlet: it  *)
(* raises MissingGreenlet, so lines 270-273 never run and ingest_mailbox   *)
(* raises.  The result: whether the error branch wrote the row, the row,   *)
(* and whether ingest_mailbox raised.                                      *)
(***************************************************************************)
CommitErrorBranch(stored, loaded, nd, now, e) ==
    [raises |-> TRUE, row |-> stored]

\* run_ingestion, lines 428-431, for an exception of ingest_mailbox that left
\* the mailbox object expired: the session is closed by now, and the read of
\* mailbox.address in the handler raises DetachedInstanceError, which leaves
\* run_ingestion.  The pc of the run after the handler.
HandlerAfterExpired(rr) == "raised"

\* Line 265 raises: a database error at COMMIT, or PendingRollbackError after
\* a failed flush.  The transaction is rolled back.
poll_commit_fails(r) ==
    /\ run[r].pc = "commit"
    /\ LET p == run[r].poll
           m == Head(run[r].todo)
       IN  \E e \in (IF p.poisoned THEN {Exc("PendingRollbackError", 30)}
                     ELSE DbErrors) :
           LET eb == CommitErrorBranch(mailboxes[m], run[r].snap[m],
                                       p.new_delta, Now(r), e)
               failed == PollEnded(run[r], "commit_failed", 0, 0)
           IN  /\ mailboxes' = [mailboxes EXCEPT ![m] = eb.row]
               /\ IF eb.raises
                  THEN IF HandlerAfterExpired(run[r]) = "raised"
                       THEN run' = [run EXCEPT
                                ![r].pc = "raised",
                                ![r].poll = FreshPoll,
                                ![r].last = failed,
                                ![r].outcome[m] = "commit_failed",
                                ![r].exc = "DetachedInstanceError"]
                       ELSE run' = [run EXCEPT ![r] =
                                Caught(run[r], "commit_failed", e)]
                  ELSE run' = [run EXCEPT ![r] =
                           Returned(run[r], "commit_failed", p.ingested, 0)]
    /\ UNCHANGED others
    /\ UNCHANGED <<emails, threat_indicators, audit_trail, audit_log,
                   app_settings, configured, env, nruns>>

\* run_ingestion, lines 433-444
finalize(r) ==
    /\ run[r].pc = "finalize"
    /\ app_settings' =
          [job_status |-> "idle",
           job_last_run |-> Now(r),
           job_error_message |->
               IF run[r].errors /= <<>> THEN JoinErrors(run[r].errors) ELSE Null]
    /\ run' = [run EXCEPT ![r].pc = "done"]
    /\ UNCHANGED others
    /\ UNCHANGED <<emails, threat_indicators, audit_trail, audit_log, mailboxes,
                   configured, env, nruns>>

\* The steps of an invocation when nothing fails before the commit.
Pipeline ==
    \/ ingestion_job
    \/ trigger_job
    \/ \E r \in Runs : run_start(r)
    \/ \E r \in Runs : load_mailboxes(r)
    \/ \E r \in Runs : fetch_returns(r)
    \/ \E r \in Runs : process_message(r)
    \/ \E r \in Runs : poll_commit(r)
    \/ \E r \in Runs : poll_commit_fails(r)
    \/ \E r \in Runs : finalize(r)

Next ==
    \/ Pipeline
    \/ \E r \in Runs : rules_query_fails(r)
    \/ \E r \in Runs : fetch_fails(r)

\* Invocations one at a time (the single-flight assumption of the callers),
\* over every batch, delta link and failure of the model.
Spec == Init /\ [][Next]_vars

\* With overlapping invocations, INSERTs can wait on each other; the job
\* control endpoints are called at any time.
NextOverlap ==
    \/ Pipeline
    \/ pause_job
    \/ resume_job
    \/ \E r \in Runs : flush_unblocked(r)
    \/ \E r \in Runs : deadlock_detected(r)

\* Invocations as the scheduler and the trigger endpoint start them.
SpecOverlap == InitOverlap /\ [][NextOverlap]_vars


(***************************************************************************)
(* Interruption: the task of run_ingestion is cancelled, or the process    *)
(* stops, at one of the awaits of the invocation.  CancelledError is not   *)
(* an Exception, so neither handler of ingest_mailbox and run_ingestion    *)
(* catches it; the session of the poll (line 217) is closed without a      *)
(* commit.                                                                 *)
(***************************************************************************)
\* Mutant of ClosedSession: closing the session commits what was flushed.
ClosedSession_commits(pending) == pending

\* The flushed messages whose rows the closed session leaves in storage.
ClosedSession(pending) == <<>>

interrupt(r) ==
    /\ Active(r)
    /\ LET p == run[r].poll
           left == ClosedSession(p.pending)
           base == Len(emails)
       IN  /\ emails' = emails \o
                  [i \in 1..Len(left) |->
                      EmailRow(left[i], Head(run[r].todo), p.rules,
                               run[r].settings_row)]
           /\ threat_indicators' = threat_indicators \o IndicatorRows(left, base)
           /\ audit_trail' = audit_trail \o TrailRows(left, base)
           /\ run' = [run EXCEPT
                         ![r].pc = "cancelled",
                         ![r].poll = FreshPoll,
                         ![r].last = IF run[r].pc \in {"poll", "msg", "commit"}
                                     THEN PollEnded(run[r], "interrupted", 0,
                                                    Len(left))
                                     ELSE @]
    /\ UNCHANGED others
    /\ UNCHANGED <<audit_log, mailboxes, app_settings, configured, env, nruns>>

\* Two messages and no failure other than the interruption.
InterruptEnv ==
    [messages |-> {Msg("m1", "hi", "link"), Msg("m2", "hi", "plain")},
     delta_links |-> DeltaLinks, exc_lens |-> {}, single_flight |-> TRUE]

InitInterrupt == InitStorage /\ env = InterruptEnv

NextInterrupt ==
    \/ ingestion_job
    \/ trigger_job
    \/ \E r \in Runs : run_start(r)
    \/ \E r \in Runs : load_mailboxes(r)
    \/ \E r \in Runs : fetch_returns(r)
    \/ \E r \in Runs : process_message(r)
    \/ \E r \in Runs : poll_commit(r)
    \/ \E r \in Runs : finalize(r)
    \/ \E r \in Runs : interrupt(r)

\* Invocations one at a time, each of which can be interrupted.
SpecInterrupt == InitInterrupt /\ [][NextInterrupt]_vars

(***************************************************************************)
(* Calls of the pure functions, over samples of their arguments.           *)
(***************************************************************************)
MaxRules == 2     \* rules in one call of apply_custom_rules
MaxHigh == 3      \* high-risk phrases in a classified text
MaxLow == 2       \* low-risk phrases in a classified text
MaxUrls == 52     \* URLs in an extracted body
MaxIps == 22      \* IP addresses in an extracted body

\* Phrases as they are written in a message.
HighPhrases ==
    << "Verify Your Account", "urgent action required", "password expired",
       "WIRE TRANSFER", "confirm your identity" >>
LowPhrases == << "Invoice Attached", "delivery failed", "your package" >>

TextSamples ==
    { Prefix(HighPhrases, h) \o Prefix(LowPhrases, l) :
        h \in 0..MaxHigh, l \in 0..MaxLow }

DomainSamples ==
    { <<"example", "com">>, <<"EVIL", "RU">>, <<"PayPa1", "com">>,
      <<"paypa1", "amaz0n", "xyz">> }

IpSamples == { <<>>, <<"10.0.0.1">> }
UrlSamples == { <<>>, [i \in 1..6 |-> Url(1, i)] }

\* (high, low) pairs update_thresholds accepts, in hundredths.
ThresholdSamples == { <<80, 50>>, <<45, 23>>, <<30, 15>>, <<100, 0>> }

RuleSamples ==
    { Rule(tv[1], tv[2], c, a) :
        tv \in { <<"domain", <<"Evil", "example">> >>,
                 <<"keyword", <<"wire transfer">> >>,
                 <<"keyword", <<"Invoice Attached">> >> },
        c \in {"high_malicious", "safe"},
        a \in BOOLEAN }

\* The URLs of a body: n URLs with distinct paths.  hosts says which host
\* URL i has: its own, one host for all, its own in upper case for the even
\* ones, its own but none for every third, or none.
HostOf(hosts, i) ==
    CASE hosts = "own"   -> i
      [] hosts = "one"   -> 1
      [] hosts = "mixed" -> IF i % 2 = 0 THEN 0 - (i \div 2) ELSE (i + 1) \div 2
      [] hosts = "gaps"  -> IF i % 3 = 0 THEN 0 ELSE i
      [] OTHER           -> 0

\* A body of n URLs, the first one once more if dup, and k bare IP addresses,
\* the first one once more if dup.
BodySample(n, hosts, dup, k) ==
    [i \in 1..n |-> Url(HostOf(hosts, i), i)]
    \o (IF dup /\ n > 0 THEN <<Url(HostOf(hosts, 1), 1)>> ELSE <<>>)
    \o [j \in 1..k |-> Ip(IpBase + j)]
    \o (IF dup /\ k > 0 THEN <<Ip(IpBase + 1)>> ELSE <<>>)

Called(fn, args, result) == [fn |-> fn, args |-> args, result |-> result]

Storage == <<emails, threat_indicators, audit_trail, audit_log, mailboxes,
             app_settings, configured, env, nruns, run, custom_rules,
             thresholds, requests>>

classify_call ==
    /\ call = NoCall
    /\ \E text \in TextSamples, dom \in DomainSamples, ips \in IpSamples,
          urls \in UrlSamples, th \in ThresholdSamples :
          call' = Called("classify",
                         [subject |-> <<"hi">>, body_text |-> text,
                          sender_domain |-> dom, urls |-> urls, ips |-> ips,
                          high_threshold |-> Lit(th[1]),
                          low_threshold |-> Lit(th[2])],
                         classify(<<"hi">>, text, dom, urls, ips,
                                  Lit(th[1]), Lit(th[2])))
    /\ UNCHANGED Storage

apply_custom_rules_call ==
    /\ call = NoCall
    /\ \E subject \in {<<"hi">>, <<"WIRE TRANSFER">>},
          dom \in {<<"example", "com">>, <<"EVIL", "Example">>},
          rules \in SeqsUpTo(RuleSamples, MaxRules) :
          call' = Called("apply_custom_rules",
                         [subject |-> subject, body_text |-> <<"plain">>,
                          sender_domain |-> dom, rules |-> rules],
                         apply_custom_rules(subject, <<"plain">>, dom, rules))
    /\ UNCHANGED Storage

extract_indicators_call ==
    /\ call = NoCall
    /\ \E n \in 0..MaxUrls, hosts \in {"own", "one", "mixed", "gaps", "none"},
          dup \in BOOLEAN, k \in {0, 1, MaxIps} :
          LET body == BodySample(n, hosts, dup, k)
          IN  call' = Called("extract_indicators",
                             [html |-> <<>>, text |-> body],
                             extract_indicators(<<>>, body))
    /\ UNCHANGED Storage

(***************************************************************************)
(* OpenAIClassifier (services/openai_classifier.py), the classifier the    *)
(* module docstring offers in place of SimpleClassifier.                   *)
(***************************************************************************)
\* What _call_api (lines 122-150) does: it raises, or it returns the parsed
\* JSON object of the completion.
ApiOutcomes ==
    { [raises |-> TRUE, category |-> None, confidence |-> Lit(0),
       reasoning |-> <<>>],
      [raises |-> FALSE, category |-> "high_malicious",
       confidence |-> Lit(150), reasoning |-> <<"credential lure">>],
      [raises |-> FALSE, category |-> "bogus", confidence |-> Lit(50),
       reasoning |-> <<>>] }

\* Lines 152-176: the synchronous classify raises RuntimeError whatever its
\* arguments are and whatever the backend would answer.
OpenAIClassifier_classify(api, a) ==
    [raised |-> "RuntimeError", value |-> None]

\* Lines 178-241: the validated answer of the backend, or, when anything in
\* the try block raised, the result of SimpleClassifier.classify.
classify_async(api, a) ==
    IF api.raises
    THEN [raised |-> None,
          value |-> classify(a.subject, a.body_text, a.sender_domain, a.urls,
                             a.ips, a.high_threshold, a.low_threshold)]
    ELSE [raised |-> None,
          value |-> [category |-> IF api.category \in
                                        {"high_malicious", "low_malicious", "safe"}
                                  THEN api.category ELSE "safe",
                     confidence |->
                         Round4(IF FLe(FMin(Lit(99), api.confidence), Lit(0))
                                THEN Lit(0)
                                ELSE FMin(Lit(99), api.confidence)),
                     reasoning |-> api.reasoning]]

\* The arguments _process_message passes to the classifier (ingestion.py
\* 312-320), under the default thresholds.
OpenAIArgs ==
    { [subject |-> <<"hi">>, body_text |-> text,
       sender_domain |-> <<"example", "com">>, urls |-> <<>>, ips |-> <<>>,
       high_threshold |-> Lit(80), low_threshold |-> Lit(50)] :
      text \in TextSamples }

openai_classify_call ==
    /\ call = NoCall
    /\ \E api \in ApiOutcomes, a \in OpenAIArgs :
          call' = Called("OpenAIClassifier.classify", [api |-> api, inputs |-> a],
                         OpenAIClassifier_classify(api, a))
    /\ UNCHANGED Storage

openai_classify_async_call ==
    /\ call = NoCall
    /\ \E api \in ApiOutcomes, a \in OpenAIArgs :
          call' = Called("OpenAIClassifier.classify_async",
                         [api |-> api, inputs |-> a], classify_async(api, a))
    /\ UNCHANGED Storage

NextCalls ==
    \/ classify_call
    \/ apply_custom_rules_call
    \/ extract_indicators_call
    \/ openai_classify_call
    \/ openai_classify_async_call

\* The pure functions, each behaviour one call with one sample of the
\* arguments.
SpecCalls == Init /\ [][NextCalls]_vars

(***************************************************************************)
(* The review endpoints (routers/emails.py) and the settings endpoints     *)
(* that write what ingestion reads (routers/settings.py).  A request runs  *)
(* in one transaction that get_db commits when the handler returns.        *)
(***************************************************************************)
MaxReviews == 2   \* audit_log rows of reviews before the last review request

\* datetime.now(timezone.utc) in a request handler, to the resolution of the
\* model: not before the start of the last invocation.
Clock == nruns + 1

\* OverrideRequest bodies (schemas/email.py:101-106)
OverrideRequests ==
    [analyst : {"ana"}, new_category : {"safe"},
     reason : {"false positive"}]

\* BulkReviewRequest.analyst
BulkAnalysts == {"bob"}

\* CustomRuleCreate bodies; is_active is the column default.
RuleRequests ==
    { Rule("domain", <<"evil", "example">>, "high_malicious", TRUE),
      Rule("keyword", <<"wire transfer">>, "safe", TRUE) }

\* SettingsUpdateThresholds bodies (high, low), in hundredths.
ThresholdRequests == { <<15, 8>>, <<50, 80>>, <<50, 50>> }

ReviewRows ==
    Cardinality({i \in 1..Len(audit_log) :
                    audit_log[i].action \in {"override", "reviewed"}})

\* Mutant of OverrideRow: reviewed_at is not stamped.
OverrideRow_unstamped(email, body, now) ==
    [email EXCEPT !.analyst_category = body.new_category,
                  !.analyst_override_reason = body.reason,
                  !.reviewed_by = body.analyst,
                  !.review_status = "overridden"]

\* Mutant of OverrideRow: the new category is written to ai_category as well.
OverrideRow_reclassify(email, body, now) ==
    [email EXCEPT !.ai_category = body.new_category,
                  !.analyst_category = body.new_category,
                  !.analyst_override_reason = body.reason,
                  !.reviewed_by = body.analyst,
                  !.reviewed_at = now,
                  !.review_status = "overridden"]

\* override_email, lines 154-159
OverrideRow(email, body, now) ==
    [email EXCEPT !.analyst_category = body.new_category,
                  !.analyst_override_reason = body.reason,
                  !.reviewed_by = body.analyst,
                  !.reviewed_at = now,
                  !.review_status = "overridden"]

\* POST /api/emails/{email_id}/override
override_email(email_id, body) ==
    /\ ReviewRows < MaxReviews
    /\ IF email_id \notin 1..Len(emails)
       THEN UNCHANGED <<emails, audit_trail, audit_log>>         \* 404
       ELSE /\ emails' = [emails EXCEPT
                             ![email_id] = OverrideRow(@, body, Clock)]
            /\ audit_trail' = Append(audit_trail,
                   [email_id |-> email_id, action |-> "override",
                    actor |-> body.analyst])
            /\ audit_log' = Append(audit_log,
                   [analyst |-> body.analyst, action |-> "override",
                    email_id |-> email_id, detail |-> body.reason,
                    previous_category |-> emails[email_id].ai_category,
                    new_category |-> body.new_category])
    /\ UNCHANGED <<threat_indicators, mailboxes, app_settings, configured,
                   env, nruns, run, custom_rules, thresholds, call,
                   requests>>

\* bulk_review, lines 204-206
ReviewedRow(email, analyst, now) ==
    [email EXCEPT !.review_status = "reviewed",
                  !.reviewed_by = analyst,
                  !.reviewed_at = now]

\* The orders in which a SELECT without ORDER BY can return the rows ids.
RowOrders(ids) ==
    {s \in [1..Cardinality(ids) -> ids] :
        \A i, j \in 1..Cardinality(ids) : s[i] = s[j] => i = j}

\* POST /api/emails/bulk-review
bulk_review(email_ids, analyst) ==
    /\ ReviewRows < MaxReviews
    /\ \E found \in RowOrders(email_ids \cap 1..Len(emails)) :
          LET updated == SelectSeq(found,
                             LAMBDA i : emails[i].review_status = "pending")
          IN  /\ emails' =
                     [i \in 1..Len(emails) |->
                         IF i \in email_ids /\ emails[i].review_status = "pending"
                         THEN ReviewedRow(emails[i], analyst, Clock)
                         ELSE emails[i]]
              /\ audit_trail' = audit_trail \o
                     [k \in 1..Len(updated) |->
                         [email_id |-> updated[k], action |-> "reviewed",
                          actor |-> analyst]]
              /\ audit_log' = audit_log \o
                     [k \in 1..Len(updated) |->
                         [analyst |-> analyst, action |-> "reviewed",
                          email_id |-> updated[k], detail |-> "Bulk review"]]
    /\ UNCHANGED <<threat_indicators, mailboxes, app_settings, configured,
                   env, nruns, run, custom_rules, thresholds, call,
                   requests>>

\* POST /api/settings/rules
create_rule(body) ==
    /\ Len(custom_rules) < MaxRules
    /\ custom_rules' = Append(custom_rules, body)
    /\ UNCHANGED <<emails, threat_indicators, audit_trail, audit_log, mailboxes,
                   app_settings, configured, env, nruns, run, thresholds, call,
                   requests>>

\* PATCH /api/settings/thresholds
update_thresholds(high, low) ==
    /\ IF FGe(low, high)
       THEN UNCHANGED thresholds                                  \* 422
       ELSE thresholds' = [high |-> high, low |-> low]
    /\ UNCHANGED <<emails, threat_indicators, audit_trail, audit_log, mailboxes,
                   app_settings, configured, env, nruns, run, custom_rules,
                   call, requests>>

(***************************************************************************)
(* PATCH /api/settings/thresholds as the server runs it: every request has *)
(* its own session (get_db); the handler awaits at its SELECTs and get_db  *)
(* commits after it returned, so that requests overlap.                    *)
(***************************************************************************)
\* SettingsUpdateThresholds bodies (high, low), in hundredths.
ThresholdBodies ==
    { <<60, 50>>, <<80, 70>>, <<30, 10>>, <<50, 50>>, <<150, 50>>, <<50, -10>> }

\* Field(..., ge=0.0, le=1.0) (schemas/settings.py 68-70)
InRange(x) == FLe(Lit(0), x) /\ FLe(x, Lit(100))

\* The request is accepted: the schema validates both fields and lines 77-81
\* find low < high.
Accepted(high, low) == InRange(high) /\ InRange(low) /\ ~FGe(low, high)

\* Lines 73-82: validation, then _get_settings loads the row into the
\* session of the request.  A rejected request (422) ends here.
thresholds_request(c, body) ==
    /\ requests.conn[c].pc = "done"
    /\ requests.received < MaxRequests
    /\ requests' =
          [received |-> requests.received + 1,
           conn |-> [requests.conn EXCEPT ![c] =
                        IF Accepted(Lit(body[1]), Lit(body[2]))
                        THEN [pc |-> "loaded", body |-> body, row |-> thresholds]
                        ELSE [NoRequest EXCEPT !.body = body]]]
    /\ UNCHANGED <<emails, threat_indicators, audit_trail, audit_log, mailboxes,
                   app_settings, configured, env, nruns, run, custom_rules,
                   thresholds, call>>

\* Lines 83-87 and the commit of get_db: the two assignments, and the UPDATE
\* the commit flushes, which sets the columns whose value differs from the
\* loaded one.
thresholds_flush(c) ==
    /\ requests.conn[c].pc = "loaded"
    /\ thresholds' =
          OrmUpdate(thresholds, requests.conn[c].row,
                    [high |-> Lit(requests.conn[c].body[1]),
                     low |-> Lit(requests.conn[c].body[2])])
    /\ requests' = [requests EXCEPT !.conn[c].pc = "done"]
    /\ UNCHANGED <<emails, threat_indicators, audit_trail, audit_log, mailboxes,
                   app_settings, configured, env, nruns, run, custom_rules,
                   call>>

NextSettings ==
    \/ \E c \in 1..MaxConnections, body \in ThresholdBodies :
          thresholds_request(c, body)
    \/ \E c \in 1..MaxConnections : thresholds_flush(c)

\* The settings page used from several browsers.
SpecSettings == Init /\ [][NextSettings]_vars

\* Two messages, nothing fails; the analysts and the settings page act at
\* any time.
ReviewEnv ==
    [messages |-> { MsgFrom("m1", "WIRE TRANSFER", "plain", <<"EVIL", "Example">>),
                    Msg("m2", "hi", "plain") },
     delta_links |-> {"d1"}, exc_lens |-> {}, single_flight |-> TRUE]

\* The seeded database, the second mailbox deactivated (is_active = false:
\* the SELECT of line 404 leaves it out).
InitReview ==
    /\ emails = <<>>
    /\ threat_indicators = <<>>
    /\ audit_trail = <<>>
    /\ audit_log = <<>>
    /\ mailboxes = [m \in Mailboxes |->
            [is_active |-> m = MailboxOrder[1], delta_link |-> None,
             last_polled_at |-> NoTime, last_error |-> Null]]
    /\ app_settings = [job_status |-> "idle", job_last_run |-> NoTime,
                       job_error_message |-> Null]
    /\ configured = TRUE
    /\ nruns = 0
    /\ run = [r \in Runs |-> FreshRun]
    /\ custom_rules = <<>>
    /\ thresholds = DefaultThresholds
    /\ call = NoCall
    /\ requests = NoRequests
    /\ env = ReviewEnv

NextReview ==
    \/ ingestion_job
    \/ trigger_job
    \/ \E r \in Runs : run_start(r)
    \/ \E r \in Runs : load_mailboxes(r)
    \/ \E r \in Runs : fetch_returns(r)
    \/ \E r \in Runs : process_message(r)
    \/ \E r \in Runs : poll_commit(r)
    \/ \E r \in Runs : finalize(r)
    \/ \E body \in RuleRequests : create_rule(body)
    \/ \E th \in ThresholdRequests : update_thresholds(Lit(th[1]), Lit(th[2]))
    \/ \E id \in 1..(MaxBatch + 1), body \in OverrideRequests :
          override_email(id, body)
    \/ \E ids \in SUBSET (1..(MaxBatch + 1)) \ {{}}, analyst \in BulkAnalysts :
          bulk_review(ids, analyst)

\* Ingestion with the analysts reviewing and the rules and thresholds being
\* edited.
SpecReview == InitReview /\ [][NextReview]_vars

(***************************************************************************)
(* POST /api/emails/bulk-review as the server runs it: the handler loads   *)
(* the emails in the session of the request (lines 196-200) and get_db     *)
(* commits after it returned; other requests commit in between.            *)
(***************************************************************************)
\* Lines 196-201: the SELECT and the time of the request.
bulk_review_load(c, email_ids, analyst) ==
    /\ requests.conn[c].pc = "done"
    /\ ReviewRows < MaxReviews
    /\ \E found \in RowOrders(email_ids \cap 1..Len(emails)) :
          requests' =
              [requests EXCEPT !.conn[c] =
                  [pc |-> "reviewing",
                   body |-> [analyst |-> analyst, found |-> found, now |-> Clock],
                   row |-> [k \in 1..Len(found) |-> emails[found[k]]]]]
    /\ UNCHANGED <<emails, threat_indicators, audit_trail, audit_log, mailboxes,
                   app_settings, configured, env, nruns, run, custom_rules,
                   thresholds, call>>

\* Lines 203-227 and the commit of get_db: every loaded email that was
\* pending when it was loaded gets the three assignments, and the UPDATE of
\* its row sets the columns whose value differs from the loaded one.
bulk_review_commit(c) ==
    /\ requests.conn[c].pc = "reviewing"
    /\ LET q == requests.conn[c]
           hits == {k \in 1..Len(q.body.found) : q.row[k].review_status = "pending"}
           updated == SelectSeq(q.body.found,
                          LAMBDA i : \E k \in hits : q.body.found[k] = i)
       IN  /\ emails' =
                  [i \in 1..Len(emails) |->
                      IF \E k \in hits : q.body.found[k] = i
                      THEN LET k == CHOOSE k \in hits : q.body.found[k] = i
                           IN  OrmUpdate(emails[i], q.row[k],
                                   ReviewedRow(q.row[k], q.body.analyst, q.body.now))
                      ELSE emails[i]]
           /\ audit_trail' = audit_trail \o
                  [k \in 1..Len(updated) |->
                      [email_id |-> updated[k], action |-> "reviewed",
                       actor |-> q.body.analyst]]
           /\ audit_log' = audit_log \o
                  [k \in 1..Len(updated) |->
                      [analyst |-> q.body.analyst, action |-> "reviewed",
                       email_id |-> updated[k], detail |-> "Bulk review"]]
           /\ requests' = [requests EXCEPT
                              !.conn[c] = NoRequest]
    /\ UNCHANGED <<threat_indicators, mailboxes, app_settings, configured,
                   env, nruns, run, custom_rules, thresholds, call>>

NextReviewOverlap ==
    \/ ingestion_job
    \/ \E r \in Runs : run_start(r)
    \/ \E r \in Runs : load_mailboxes(r)
    \/ \E r \in Runs : fetch_returns(r)
    \/ \E r \in Runs : process_message(r)
    \/ \E r \in Runs : poll_commit(r)
    \/ \E r \in Runs : finalize(r)
    \/ \E i \in 1..MaxBatch, body \in OverrideRequests : override_email(i, body)
    \/ \E c \in 1..MaxConnections, ids \in SUBSET (1..MaxBatch) \ {{}}, a \in BulkAnalysts :
          bulk_review_load(c, ids, a)
    \/ \E c \in 1..MaxConnections : bulk_review_commit(c)

\* Ingestion with review requests that overlap.
SpecReviewOverlap == InitReview /\ [][NextReviewOverlap]_vars

(***************************************************************************)
(* GraphAPIClient.list_messages (services/graph_api.py 88-142) over the    *)
(* pages the Graph API answers with.                                       *)
(***************************************************************************)
MaxPages == 2     \* pages of one delta query
MaxPageLen == 2   \* messages on one page

\* A page: its "value", whether it has "@odata.nextLink", and its
\* "@odata.deltaLink" (None: the key is absent).
Pages(msgs) ==
    [value : SeqsUpTo(msgs, MaxPageLen), next : BOOLEAN, delta : DeltaLinks]

\* The pages of a query in the order the next links chain them; a next link
\* leads to a page, so the last page has none.
Responses(msgs) ==
    {s \in SeqsUpTo(Pages(msgs), MaxPages) : s /= <<>> /\ ~s[Len(s)].next}

\* Lines 124-140: the while loop from page i on, with the messages so far.
RECURSIVE list_messages_from(_, _, _)
list_messages_from(pages, i, messages) ==
    IF pages[i].next
    THEN list_messages_from(pages, i + 1, messages \o pages[i].value)
    ELSE [messages |-> messages \o pages[i].value,
          next_delta |-> pages[i].delta]

\* Mutant of list_messages: only the first page is read.
list_messages_first(pages) ==
    [messages |-> pages[1].value, next_delta |-> pages[1].delta]

\* Lines 111-142
list_messages(pages) == list_messages_from(pages, 1, <<>>)

\* ingest_mailbox lines 225-229 with the adapter's loop: the batch and the
\* new delta link are what list_messages returns for the pages served.
fetch_pages(r) ==
    /\ run[r].pc = "poll"
    /\ \E pages \in Responses(env.messages) :
          \E res \in {list_messages(pages)} :
              /\ call' = Called("list_messages", [pages |-> pages], res)
              /\ run' = [run EXCEPT
                            ![r].poll = [FreshPoll EXCEPT
                                            !.batch = res.messages, !.k = 1,
                                            !.new_delta = res.next_delta,
                                            !.again = AllStored(res.messages),
                                            !.rules = custom_rules],
                            ![r].pc = IF res.messages = <<>>
                                      THEN "commit" ELSE "msg"]
    /\ UNCHANGED <<emails, threat_indicators, audit_trail, audit_log, mailboxes,
                   app_settings, configured, env, nruns, custom_rules,
                   thresholds, requests>>

NextPaging ==
    \/ ingestion_job
    \/ trigger_job
    \/ \E r \in Runs : run_start(r)
    \/ \E r \in Runs : load_mailboxes(r)
    \/ \E r \in Runs : fetch_pages(r)
    \/ \E r \in Runs : process_message(r)
    \/ \E r \in Runs : poll_commit(r)
    \/ \E r \in Runs : finalize(r)

\* One active mailbox polled through the adapter, page by page.
SpecPaging == InitReview /\ [][NextPaging]_vars

(***************************************************************************)
(* Properties                                                              *)
(***************************************************************************)
\* Invocation r takes the step out of line 265 (commit or error branch).
LeavesCommit(r) == run[r].pc = "commit" /\ run'[r].pc /= "commit"

\* ... and line 265 succeeded.
CommitStep(r) == LeavesCommit(r) /\ run'[r].last.outcome = "committed"

TablesUnchanged ==
    /\ emails' = emails
    /\ threat_indicators' = threat_indicators
    /\ audit_trail' = audit_trail
    /\ audit_log' = audit_log

\* C1.  Idempotence of ingestion.  A poll that commits leaves every message of
\* its batch that can be persisted in storage; and a poll of a batch whose
\* persistable messages are all stored already (the same batch polled again)
\* constructs nothing, is not failed by any message, returns 0, adds no
\* emails, threat_indicators, email_audit_trail or audit_log row and commits
\* with last_error cleared and no error recorded.
C1_Idempotent ==
    /\ [](\A r \in Runs :
            run[r].poll.again =>
                /\ run[r].poll.ingested = 0
                /\ run[r].poll.pending = <<>>
                /\ ~run[r].poll.poisoned)
    /\ [][\A r \in Runs :
            CommitStep(r) =>
                LET p == run[r].poll
                    m == Head(run[r].todo)
                IN  /\ \A i \in 1..Len(p.batch) :
                          Ingestible(p.batch[i]) => p.batch[i].id \in StoredIds'
                    /\ p.again =>
                          /\ TablesUnchanged
                          /\ run'[r].last.returned = 0
                          /\ run'[r].total_ingested = run[r].total_ingested
                          /\ run'[r].errors = run[r].errors
                          /\ mailboxes'[m].last_error = Null]_vars

\* A batch with a persistable message, all of them stored, was polled again
\* and the poll committed.
C1_Witness ==
    \E r \in Runs :
        /\ run[r].last.outcome = "committed"
        /\ run[r].last.again
        /\ run[r].last.ingestible > 0

\* C2.  In committed storage no two emails rows have the same
\* graph_message_id, whatever the batches (an id twice in a batch, an id in
\* the batches of two mailboxes) and however the invocations overlap.
C2_UniqueRemoteId ==
    \A i, j \in 1..Len(emails) :
        emails[i].graph_message_id = emails[j].graph_message_id => i = j

\* A poll of one mailbox committed a batch whose persistable messages were all
\* stored by polls of the other mailbox.
C2_Witness ==
    \E r \in Runs :
        /\ run[r].last.outcome = "committed"
        /\ run[r].last.again
        /\ run[r].last.ingestible > 0
        /\ emails /= <<>>
        /\ \A i \in 1..Len(emails) :
              emails[i].mailbox_address /= run[r].last.mailbox

\* Everything the poll constructed is visible after the step.
AllVisible(r) ==
    LET p == run[r].poll
        m == Head(run[r].todo)
        n == Len(p.pending)
        base == Len(emails)
    IN  /\ Len(emails') = base + n
        /\ SubSeq(emails', 1, base) = emails
        /\ \A i \in 1..n :
              /\ emails'[base + i].graph_message_id = p.pending[i].id
              /\ emails'[base + i].mailbox_address = m
              /\ Cardinality({k \in 1..Len(audit_trail') :
                     /\ audit_trail'[k].email_id = base + i
                     /\ audit_trail'[k].action = "ingested"}) = 1
              /\ Cardinality({k \in 1..Len(threat_indicators') :
                     threat_indicators'[k].email_id = base + i})
                 = Len(Indicators(p.pending[i].body))
        /\ Len(audit_trail') = Len(audit_trail) + n
        /\ audit_log' = (IF n > 0
                         THEN Append(audit_log,
                                     [analyst |-> "system", action |-> "ingestion",
                                      count |-> n, mailbox |-> m])
                         ELSE audit_log)
        /\ mailboxes'[m].delta_link = p.new_delta
        /\ mailboxes'[m].last_polled_at = run[r].id
        /\ mailboxes'[m].last_error = Null

\* Nothing of the poll is visible after the step.
NoneVisible(r) ==
    LET m == Head(run[r].todo)
    IN  /\ TablesUnchanged
        /\ mailboxes'[m].delta_link = mailboxes[m].delta_link
        /\ mailboxes'[m].last_polled_at = mailboxes[m].last_polled_at

\* C3.  Per-mailbox atomicity.  The emails, threat_indicators,
\* email_audit_trail and audit_log tables and a mailbox's delta link and
\* last_polled_at change only in the step that ends the poll's transaction,
\* and then either everything the poll constructed becomes visible together
\* with the cursor update, or nothing does; when the commit fails, nothing
\* does.
C3_Atomic ==
    [][/\ \A r \in Runs :
             LeavesCommit(r) =>
                 /\ AllVisible(r) \/ NoneVisible(r)
                 /\ run'[r].last.outcome = "commit_failed" => NoneVisible(r)
       /\ (\A r \in Runs : ~LeavesCommit(r)) =>
             /\ TablesUnchanged
             /\ \A m \in Mailboxes :
                   /\ mailboxes'[m].delta_link = mailboxes[m].delta_link
                   /\ mailboxes'[m].last_polled_at = mailboxes[m].last_polled_at]_vars

\* The commit of a poll failed after the poll had constructed emails.
C3_Witness ==
    \E r \in Runs :
        /\ run[r].last.outcome = "commit_failed"
        /\ run[r].last.constructed > 0
        /\ \A i \in 1..Len(emails) :
              emails[i].mailbox_address /= run[r].last.mailbox

\* C4.  Error branch of a poll: after a poll whose fetch or commit raised, the
\* stored mailbox row has a non-null last_error of at most 512 characters and
\* the delta link it had before the poll.
C4_ErrorBranch ==
    \A r \in Runs :
        run[r].last.outcome \in {"fetch_failed", "commit_failed"} =>
            LET m == run[r].last.mailbox
            IN  /\ ~mailboxes[m].last_error.null
                /\ mailboxes[m].last_error.len <= ErrorLimit
                /\ mailboxes[m].delta_link = run[r].snap[m].delta_link

\* C5.  Error isolation between mailboxes: the poll of one mailbox, failing
\* or not, leaves the rows of the mailboxes the run has not polled yet as the
\* run loaded them, and a run that has ended has polled every active mailbox.
C5_Isolation ==
    \A r \in Runs :
        run[r].snap /= <<>> =>
            /\ \A m \in Mailboxes \ Attempted(r) :
                  (run[r].todo = <<>> \/ m /= Head(run[r].todo)) =>
                      mailboxes[m] = run[r].snap[m]
            /\ run[r].pc \in {"done", "raised"} =>
                  Attempted(r) = {m \in Mailboxes : run[r].snap[m].is_active}

\* C6.  Run-level error reporting: a run in which the fetch of mailbox A
\* raised and mailbox B polled successfully ends with exactly one error, which
\* names A, with mailboxes_processed = 1, job_status idle and a
\* job_error_message that contains A's address.
C6_RunErrorReport ==
    \A r \in Runs :
        (/\ run[r].pc = "done"
         /\ run[r].outcome["A"] = "fetch_failed"
         /\ run[r].outcome["B"] = "committed") =>
            /\ Len(run[r].errors) = 1
            /\ run[r].errors[1].text[1] = "A"
            /\ run[r].mailboxes_processed = 1
            /\ app_settings.job_status = "idle"
            /\ ~app_settings.job_error_message.null
            /\ \E i \in 1..Len(app_settings.job_error_message.text) :
                  app_settings.job_error_message.text[i] = "A"

\* C7.  Every run that has set job_status to running finishes: no invocation
\* of run_ingestion ends by raising, and once no invocation is in flight
\* job_status is not left at running.
C7_RunCompletes ==
    /\ \A r \in Runs : run[r].pc /= "raised"
    /\ (\A r \in Runs : ~InFlight(r)) => app_settings.job_status /= "running"

\* C8.  Paused guard: an invocation that is triggered (by the scheduler or by
\* the trigger endpoint) while job_status is paused is skipped: it never
\* enters run_ingestion.
C8_PausedGuard ==
    [][\A r \in Runs :
          (/\ app_settings.job_status = "paused"
           /\ run'[r].id /= run[r].id) =>
              run'[r].pc = "skipped"]_vars

\* C9.  Not-configured guard: without credentials an invocation is a no-op;
\* nothing is written and job_status stays idle without passing through
\* running.
C9_NotConfiguredNoOp ==
    ~configured =>
        /\ app_settings = [job_status |-> "idle", job_last_run |-> NoTime,
                           job_error_message |-> Null]
        /\ emails = <<>>
        /\ \A m \in Mailboxes :
              /\ mailboxes[m].delta_link = None
              /\ mailboxes[m].last_error = Null

\* C10.  Single-flight: at most one invocation of run_ingestion is active at
\* any time.
C10_SingleFlight == Cardinality({r \in Runs : Active(r)}) <= 1

\* C11.  Rule precedence: whenever an active domain rule matches the sender
\* domain (case-insensitively), apply_custom_rules returns the category of a
\* matching active domain rule, whatever keyword rules match and wherever
\* they stand in the list.
C11_DomainRuleFirst ==
    call.fn = "apply_custom_rules" =>
        LET a == call.args
            domainHits ==
                {i \in 1..Len(a.rules) :
                    /\ a.rules[i].is_active
                    /\ a.rules[i].rule_type = "domain"
                    /\ Lower(a.rules[i].value) = Lower(a.sender_domain)}
        IN  domainHits /= {} =>
                \E i \in domainHits : call.result = a.rules[i].force_category

Rank(category) ==
    CASE category = "safe"           -> 0
      [] category = "low_malicious"  -> 1
      [] category = "high_malicious" -> 2

\* The sampled inputs of classify, thresholds apart.
ClassifyInputs ==
    [body_text : TextSamples, sender_domain : DomainSamples,
     urls : UrlSamples, ips : IpSamples]

\* C14.  Classifier monotonicity: under thresholds with low < high, for the
\* classified input and any other input, if the score computed for one
\* (line 138) is at most the score computed for the other, then its category
\* is not higher, in the order safe < low_malicious < high_malicious.
C14_Monotonic ==
    (/\ call.fn = "classify"
     /\ FLe(call.args.low_threshold, call.args.high_threshold)
     /\ call.args.low_threshold /= call.args.high_threshold) =>
        \A in \in ClassifyInputs :
            LET other == classify(<<"hi">>, in.body_text, in.sender_domain,
                                  in.urls, in.ips, call.args.high_threshold,
                                  call.args.low_threshold)
            IN  /\ FLe(call.result.score, other.score) =>
                    Rank(call.result.category) <= Rank(other.category)
                /\ FLe(other.score, call.result.score) =>
                    Rank(other.category) <= Rank(call.result.category)

\* A low_malicious input between an input of smaller score that is safe and
\* an input of larger score that is high_malicious, under the same
\* thresholds.
C14_Witness ==
    /\ call.fn = "classify"
    /\ call.result.category = "low_malicious"
    /\ \E lo, hi \in ClassifyInputs :
          LET a == classify(<<"hi">>, lo.body_text, lo.sender_domain, lo.urls,
                            lo.ips, call.args.high_threshold,
                            call.args.low_threshold)
              b == classify(<<"hi">>, hi.body_text, hi.sender_domain, hi.urls,
                            hi.ips, call.args.high_threshold,
                            call.args.low_threshold)
          IN  /\ a.score /= call.result.score /\ FLe(a.score, call.result.score)
              /\ b.score /= call.result.score /\ FLe(call.result.score, b.score)
              /\ a.category = "safe"
              /\ b.category = "high_malicious"

\* C15.  Category decision: the category of a classified input is
\* high_malicious exactly when its capped score, the value of the score
\* formula that is returned as the confidence, is at least the high
\* threshold; low_malicious exactly when that score is at least the low
\* threshold and below the high one; safe exactly when it is below the low
\* threshold.
C15_DecisionBoundaries ==
    call.fn = "classify" =>
        LET score == call.result.confidence
            high == call.args.high_threshold
            low == call.args.low_threshold
        IN  /\ call.result.category = "high_malicious" <=> FGe(score, high)
            /\ call.result.category = "low_malicious" <=>
                   (FGe(score, low) /\ ~FGe(score, high))
            /\ call.result.category = "safe" <=> ~FGe(score, low)

\* 1 if b, else 0
Bonus(b) == IF b THEN 1 ELSE 0

\* C16.  Heuristic score formula: the returned confidence is the float of
\* min(0.99, 0.15*H + (0.08*L if H = 0) + 0.20*[sender domain ends in a
\* suspicious TLD] + 0.25*[sender domain contains a brand pattern] +
\* 0.10*[IP list non-empty] + 0.08*[more than 5 URLs]), H and L the numbers
\* of high-risk and low-risk phrases in the lower-cased text; the TLD and
\* brand bonuses count once; the confidence lies in [0, 0.99].
C16_ScoreFormula ==
    call.fn = "classify" =>
        LET a == call.args
            text == Lower(a.subject \o a.body_text)
            domain == Lower(a.sender_domain)
            H == Cardinality({i \in 1..Len(HIGH_KEYWORDS) :
                                 \E j \in 1..Len(text) :
                                     text[j] = HIGH_KEYWORDS[i]})
            L == Cardinality({i \in 1..Len(LOW_KEYWORDS) :
                                 \E j \in 1..Len(text) :
                                     text[j] = LOW_KEYWORDS[i]})
            tld == Len(domain) >= 2 /\ domain[Len(domain)] \in SUSPICIOUS_TLDS
            brand == \E j \in 1..Len(domain), i \in 1..Len(brand_patterns) :
                         domain[j] = brand_patterns[i]
            hundredths == 15 * H + (IF H = 0 THEN 8 * L ELSE 0)
                          + 20 * Bonus(tld) + 25 * Bonus(brand)
                          + 10 * Bonus(a.ips /= <<>>)
                          + 8 * Bonus(Len(a.urls) > 5)
        IN  /\ call.result.confidence = Lit(Min(99, hundredths))
            /\ FGe(call.result.confidence, Lit(0))
            /\ FLe(call.result.confidence, Lit(99))

\* High-risk and low-risk phrases together, a sender domain with two brand
\* patterns and a suspicious TLD, an IP address and more than 5 URLs: the
\* low-risk phrases and the second brand pattern add nothing, and the sum
\* 0.45 + 0.20 + 0.25 + 0.10 + 0.08 is capped.
C16_Witness ==
    /\ call.fn = "classify"
    /\ Len(call.args.body_text) = 5
    /\ call.args.sender_domain = <<"paypa1", "amaz0n", "xyz">>
    /\ call.args.ips /= <<>>
    /\ Len(call.args.urls) > 5
    /\ call.result.confidence = Lit(99)
    /\ call.result.score /= FAdd(FAdd(FAdd(FAdd(FMul(15, 3), 20), 25), 10), 8)

\* No heuristic of classify fires on the arguments a.
NoSignal(a) ==
    LET text == Lower(a.subject \o a.body_text)
        domain == Lower(a.sender_domain)
    IN  /\ \A i \in 1..Len(text) :
              /\ \A k \in 1..Len(HIGH_KEYWORDS) : text[i] /= HIGH_KEYWORDS[k]
              /\ \A k \in 1..Len(LOW_KEYWORDS) : text[i] /= LOW_KEYWORDS[k]
        /\ domain[Len(domain)] \notin SUSPICIOUS_TLDS
        /\ \A i \in 1..Len(domain), k \in 1..Len(brand_patterns) :
              domain[i] /= brand_patterns[k]
        /\ a.ips = <<>>
        /\ Len(a.urls) <= 5

\* The line "No significant threat indicators detected".
DefaultLine == [kind |-> "none", items |-> <<>>, n |-> 0]

\* C17.  Default reasoning line: when no heuristic fires and the score 0 is
\* below the low threshold, classify returns safe, confidence 0.0 and the
\* default line as the only reasoning line; the default line is in the
\* reasoning only when the category is safe and no other line was produced.
C17_DefaultLine ==
    call.fn = "classify" =>
        /\ (NoSignal(call.args) /\ ~FGe(Lit(0), call.args.low_threshold)) =>
               /\ call.result.category = "safe"
               /\ call.result.confidence = Lit(0)
               /\ call.result.reasoning = <<DefaultLine>>
        /\ (\E i \in 1..Len(call.result.reasoning) :
                call.result.reasoning[i] = DefaultLine) =>
               /\ call.result.category = "safe"
               /\ call.result.reasoning = <<DefaultLine>>
               /\ NoSignal(call.args)
        /\ (call.result.category = "safe" /\ ~NoSignal(call.args)) =>
               \A i \in 1..Len(call.result.reasoning) :
                   call.result.reasoning[i] /= DefaultLine

\* The scenario of the default thresholds: no phrase, example.com, no URL and
\* no IP address gives safe with the default line.
C17_Witness ==
    /\ call.fn = "classify"
    /\ call.args.body_text = <<>>
    /\ call.args.sender_domain = <<"example", "com">>
    /\ call.args.urls = <<>> /\ call.args.ips = <<>>
    /\ call.args.high_threshold = Lit(80)
    /\ call.args.low_threshold = Lit(50)
    /\ call.result.category = "safe"
    /\ call.result.reasoning = <<DefaultLine>>

\* The position at which x is first seen in s.
FirstPos(x, s) == CHOOSE i \in 1..Len(s) : s[i] = x /\ \A j \in 1..(i - 1) : s[j] /= x

\* res is the first cap elements of s without its repetitions: no element
\* twice, in the order of first occurrence, and nothing of s left out except
\* after cap elements.
FirstDistinct(res, s, cap) ==
    /\ \A i, j \in 1..Len(res) : res[i] = res[j] => i = j
    /\ \A i \in 1..Len(res) : \E p \in 1..Len(s) : s[p] = res[i]
    /\ \A i \in 1..(Len(res) - 1) : FirstPos(res[i], s) < FirstPos(res[i + 1], s)
    /\ Len(res) <= cap
    /\ \A p \in 1..Len(s) :
          (\A i \in 1..Len(res) : res[i] /= s[p]) =>
              /\ Len(res) = cap
              /\ FirstPos(res[cap], s) < p

\* C18.  Indicator extraction: the URL, domain and IP lists returned for a
\* body have no repeated element, are in first-seen order and are the first
\* 50 / 50 / 20 elements of the deduplicated URLs, of the deduplicated
\* lower-cased hosts of the URLs, and of the deduplicated IP addresses; a
\* URL without a parsable host is a URL of the result and gives no domain.
C18_ExtractionCaps ==
    call.fn = "extract_indicators" =>
        LET content == call.args.html \o call.args.text
            found == SelectSeq(content, LAMBDA t : t.kind = "url")
            hosted == SelectSeq(found, LAMBDA t : t.host /= 0)
            hosts == [i \in 1..Len(hosted) |->
                         IF hosted[i].host < 0 THEN 0 - hosted[i].host
                         ELSE hosted[i].host]
            quads == SelectSeq(content,
                               LAMBDA t : t.kind = "ip" \/
                                          (t.kind = "url" /\ t.host >= IpBase))
            addrs == [i \in 1..Len(quads) |-> quads[i].host]
        IN  /\ FirstDistinct(call.result.urls, found, 50)
            /\ FirstDistinct(call.result.domains, hosts, 50)
            /\ FirstDistinct(call.result.ips, addrs, 20)
            /\ \A i \in 1..Len(call.result.domains) :
                  call.result.domains[i] /= 0

\* More than 50 distinct URLs, every third without a host, the first URL and
\* the first of more than 20 IP addresses repeated: 50 URLs, among them one
\* without a host, and 20 IP addresses are returned.
C18_Witness ==
    /\ call.fn = "extract_indicators"
    /\ Len(SelectSeq(call.args.text, LAMBDA t : t.kind = "url")) > 51
    /\ call.args.text[1] = Url(1, 1)
    /\ \E p \in 2..Len(call.args.text) : call.args.text[p] = Url(1, 1)
    /\ Len(call.result.urls) = 50
    /\ call.result.urls[3].host = 0
    /\ call.result.domains /= <<>>
    /\ Len(call.result.domains) < 50
    /\ Len(call.result.ips) = 20

\* C13.  Forced override on ingest: for every email a poll commits, with the
\* rules and thresholds the poll worked with: if an active rule matches the
\* message, ai_category is the force_category of the first such rule, the
\* reasoning is the forced-override note followed by the heuristic lines in
\* their order, and the confidence is the heuristic score; if none matches,
\* the heuristic category, reasoning and confidence are stored.
C13_ForcedOverride ==
    [][\A r \in Runs :
          CommitStep(r) =>
              \A k \in 1..Len(run[r].poll.pending) :
                  LET msg == run[r].poll.pending[k]
                      row == emails'[Len(emails) + k]
                      rules == run[r].poll.rules
                      text == Lower(<<msg.subject>> \o <<msg.body>>)
                      hits ==
                          {i \in 1..Len(rules) :
                              /\ rules[i].is_active
                              /\ \/ /\ rules[i].rule_type = "domain"
                                    /\ Lower(rules[i].value) = Lower(msg.sender_domain)
                                 \/ /\ rules[i].rule_type = "keyword"
                                    /\ Within(Lower(rules[i].value), text)}
                      ind == extract_indicators(<<>>, Content(msg.body))
                      h == classify(<<msg.subject>>, <<msg.body>>,
                                    msg.sender_domain, ind.urls, ind.ips,
                                    run[r].settings_row.high,
                                    run[r].settings_row.low)
                  IN  /\ row.graph_message_id = msg.id
                      /\ row.confidence_score = h.confidence
                      /\ IF hits = {}
                         THEN /\ row.ai_category = h.category
                              /\ row.ai_reasoning = h.reasoning
                         ELSE LET first == CHOOSE i \in hits : \A j \in hits : i <= j
                                  forced == rules[first].force_category
                              IN  /\ row.ai_category = forced
                                  /\ row.ai_reasoning /= <<>>
                                  /\ Head(row.ai_reasoning) =
                                         [kind |-> "forced", items |-> <<forced>>, n |-> 0]
                                  /\ Tail(row.ai_reasoning) = h.reasoning]_vars

\* The message from EVIL.Example, which the heuristic scores 0.15 and calls
\* safe, is stored as high_malicious by the domain rule, the note before the
\* keyword line; the other message of the same table is stored as the
\* heuristic classified it.
C13_Witness ==
    /\ \E i \in 1..Len(emails) :
          /\ emails[i].graph_message_id = "m1"
          /\ emails[i].ai_category = "high_malicious"
          /\ emails[i].confidence_score = Lit(15)
          /\ Len(emails[i].ai_reasoning) = 2
          /\ emails[i].ai_reasoning[1].kind = "forced"
          /\ emails[i].ai_reasoning[2].kind = "high_keywords"
    /\ \E i \in 1..Len(emails) :
          /\ emails[i].graph_message_id = "m2"
          /\ emails[i].ai_category = "safe"
          /\ emails[i].ai_reasoning = <<[kind |-> "none", items |-> <<>>, n |-> 0]>>
    /\ custom_rules /= <<>>

\* C19.  In every state, an email whose review_status is overridden has its
\* analyst category, override reason, reviewer and reviewed-at all set.
C19_OverriddenFieldsSet ==
    \A i \in 1..Len(emails) :
        emails[i].review_status = "overridden" =>
            /\ emails[i].analyst_category \in
                   {"high_malicious", "low_malicious", "safe"}
            /\ emails[i].analyst_override_reason /= None
            /\ emails[i].reviewed_by /= None
            /\ emails[i].reviewed_at /= NoTime

\* A pending email was overridden, a bulk review that named it and a pending
\* one went through afterwards, and a later poll met its message again: it
\* is still overridden, by the analyst of the override.
C19_Witness ==
    \E i, j \in 1..Len(emails) :
        /\ emails[i].review_status = "overridden"
        /\ emails[i].reviewed_by = "ana"
        /\ emails[j].review_status = "reviewed"
        /\ emails[j].reviewed_by = "bob"
        /\ \E k \in 1..Len(audit_log) :
              /\ audit_log[k].action = "override"
              /\ audit_log[k].email_id = i
              /\ \E l \in (k + 1)..Len(audit_log) :
                    /\ audit_log[l].action = "reviewed"
                    /\ audit_log[l].email_id = j
        /\ \E r \in Runs :
              /\ run[r].pc = "commit"
              /\ run[r].poll.again
              /\ run[r].poll.batch /= <<>>

\* The columns of emails that are not review fields.
InsertColumns ==
    {"graph_message_id", "mailbox_address", "ai_category", "confidence_score",
     "ai_reasoning"}

\* C20.  ai_category and confidence_score are fixed at insert: no step (a
\* poll that meets the remote id again, the creation of a rule, a change of
\* the thresholds, override_email, bulk_review) changes them on an existing
\* email or removes the email; the review endpoints write review fields
\* only.
C20_CategoryFixed ==
    [][/\ Len(emails') >= Len(emails)
       /\ \A i \in 1..Len(emails) :
             /\ emails'[i].ai_category = emails[i].ai_category
             /\ emails'[i].confidence_score = emails[i].confidence_score
             /\ \A c \in InsertColumns : emails'[i][c] = emails[i][c]]_vars

\* The email of m1, stored as safe before any rule existed and under the
\* default thresholds, has been overridden, another email bulk-reviewed, the
\* domain rule created and the thresholds lowered, so that a poll would now
\* store m1 as high_malicious; a poll that works with the new rule and
\* thresholds has met m1 again and is about to commit.
C20_Witness ==
    /\ \E i \in 1..Len(emails) :
          /\ emails[i].graph_message_id = "m1"
          /\ emails[i].ai_category = "safe"
          /\ emails[i].confidence_score = Lit(15)
          /\ emails[i].review_status = "overridden"
    /\ \E k \in 1..Len(audit_log) : audit_log[k].action = "reviewed"
    /\ \E r \in Runs :
          /\ run[r].pc = "commit"
          /\ run[r].poll.again
          /\ \E k \in 1..Len(run[r].poll.batch) : run[r].poll.batch[k].id = "m1"
          /\ \E k \in 1..Len(run[r].poll.rules) :
                run[r].poll.rules[k].rule_type = "domain"
          /\ run[r].settings_row.high = Lit(15)

\* The positions of the audit trail entries of email i in trail.
EntriesOf(trail, i) == {k \in 1..Len(trail) : trail[k].email_id = i}

\* C21.  The per-email audit trail is append-only: in every state every
\* committed email has exactly one "ingested" entry, which stands before its
\* other entries, and every entry belongs to a committed email; every step
\* keeps the entries there are, adds exactly one "ingested" entry for every
\* email it adds (the same transaction), and adds for an existing email at
\* most one entry, exactly one if the step overrides or bulk-reviews it.
C21_TrailAppendOnly ==
    /\ [](/\ \A k \in 1..Len(audit_trail) :
                audit_trail[k].email_id \in 1..Len(emails)
          /\ \A i \in 1..Len(emails) :
                LET ingested == {k \in EntriesOf(audit_trail, i) :
                                    audit_trail[k].action = "ingested"}
                IN  /\ Cardinality(ingested) = 1
                    /\ \A k \in ingested, l \in EntriesOf(audit_trail, i) :
                          k <= l)
    /\ [][/\ Len(audit_trail') >= Len(audit_trail)
          /\ SubSeq(audit_trail', 1, Len(audit_trail)) = audit_trail
          /\ \A i \in 1..Len(emails') :
                LET added == {k \in EntriesOf(audit_trail', i) :
                                 k > Len(audit_trail)}
                IN  IF i > Len(emails)
                    THEN /\ Cardinality(added) = 1
                         /\ \A k \in added : audit_trail'[k].action = "ingested"
                    ELSE /\ Cardinality(added) <= 1
                         /\ emails'[i] /= emails[i] => Cardinality(added) = 1
                         /\ \A k \in added :
                               /\ audit_trail'[k].actor = emails'[i].reviewed_by
                               /\ \/ /\ audit_trail'[k].action = "override"
                                     /\ emails'[i].review_status = "overridden"
                                  \/ /\ audit_trail'[k].action = "reviewed"
                                     /\ emails[i].review_status = "pending"
                                     /\ emails'[i].review_status = "reviewed"]_vars

\* An email whose trail reads ingested, reviewed, override, and another
\* email whose trail is its "ingested" entry alone.
C21_Witness ==
    \E i, j \in 1..Len(emails) :
        /\ i /= j
        /\ Cardinality(EntriesOf(audit_trail, j)) = 1
        /\ \E a, b, c \in EntriesOf(audit_trail, i) :
              /\ a < b /\ b < c
              /\ audit_trail[a].action = "ingested"
              /\ audit_trail[b].action = "reviewed"
              /\ audit_trail[c].action = "override"

\* The messages of batch b whose processing raises in classify.
Raising(b) == {i \in 1..Len(b) : b[i].id /= "" /\ b[i].subject = None}

\* C22.  Per-message failure isolation: a message whose processing raises in
\* classification does not end the poll: the loop goes on to the next
\* message or to the commit; at the commit the session is usable and holds
\* every message of the batch, before or after a raising one, that can be
\* persisted and is not stored yet; and the commit stores them and leaves
\* the mailbox's last_error cleared.
C22_MessageIsolation ==
    /\ [](\A r \in Runs :
             run[r].pc = "commit" =>
                 /\ ~run[r].poll.poisoned
                 /\ HeldBy(r) = {run[r].poll.batch[i].id :
                                    i \in {j \in 1..Len(run[r].poll.batch) :
                                              /\ Ingestible(run[r].poll.batch[j])
                                              /\ run[r].poll.batch[j].id \notin StoredIds}})
    /\ [][\A r \in Runs :
             /\ run[r].pc = "msg" => run'[r].pc \in {"msg", "commit"}
             /\ (CommitStep(r) /\ Raising(run[r].poll.batch) /= {}) =>
                   /\ \A i \in 1..Len(run[r].poll.batch) :
                         Ingestible(run[r].poll.batch[i]) =>
                             run[r].poll.batch[i].id \in StoredIds'
                   /\ mailboxes'[Head(run[r].todo)].last_error = Null
                   /\ run'[r].errors = run[r].errors]_vars

\* The first message of a batch raised and the second one, which can be
\* persisted and was not stored, is in the transaction at the commit.
C22_Witness ==
    \E r \in Runs :
        /\ run[r].pc = "commit"
        /\ Len(run[r].poll.batch) = 2
        /\ 1 \in Raising(run[r].poll.batch)
        /\ Len(run[r].poll.pending) = 1
        /\ run[r].poll.pending[1] = run[r].poll.batch[2]
        /\ ~run[r].poll.poisoned

\* C23.  Retry of a failed message: the commit of a poll in which the
\* processing of a message raised does not advance the mailbox cursor: the
\* stored delta_link stays the one the batch was fetched with, so that the
\* next poll fetches the message again.
C23_CursorNotAdvanced ==
    [][\A r \in Runs :
          (CommitStep(r) /\ Raising(run[r].poll.batch) /= {}) =>
              mailboxes'[Head(run[r].todo)].delta_link =
                  mailboxes[Head(run[r].todo)].delta_link]_vars

\* The result of SimpleClassifier.classify for the inputs a.
Heuristic(a) ==
    classify(a.subject, a.body_text, a.sender_domain, a.urls, a.ips,
             a.high_threshold, a.low_threshold)

\* C24.  Pluggable classifier fallback: a call of the remote-model
\* classifier through classify, the method the orchestrator calls, raises
\* nothing, and when the backend call failed it returns the result of the
\* heuristic classifier for the same inputs.
C24_ClassifierFallback ==
    call.fn = "OpenAIClassifier.classify" =>
        /\ call.result.raised = None
        /\ call.args.api.raises =>
               call.result.value = Heuristic(call.args.inputs)

\* 0 <= low < high <= 1
Ordered(th) ==
    /\ FLe(Lit(0), th.low)
    /\ FLe(th.low, th.high) /\ th.low /= th.high
    /\ FLe(th.high, Lit(100))

\* C25.  Threshold invariant: in every reachable state the stored thresholds
\* satisfy 0 <= low < high <= 1, from the defaults 0.50/0.80 on and after
\* any threshold requests; and a request with low >= high or with a value
\* outside [0, 1] leaves the stored thresholds as they are.
C25_ThresholdInvariant ==
    /\ [](Ordered(thresholds))
    /\ [][\A c \in 1..MaxConnections :
             (/\ requests'.received = requests.received + 1
              /\ requests'.conn[c] /= requests.conn[c]
              /\ ~Ordered([high |-> Lit(requests'.conn[c].body[1]),
                           low |-> Lit(requests'.conn[c].body[2])])) =>
                 /\ thresholds' = thresholds
                 /\ requests'.conn[c].pc = "done"]_vars

\* C26.  Successful commit of a poll: the step that commits a poll leaves in
\* the mailbox row the delta link the adapter returned for the fetch of this
\* poll, None included, a null last_error, and the time of this poll as
\* last_polled_at.
C26_PollCommitted ==
    [][\A r \in Runs :
          CommitStep(r) =>
              /\ mailboxes'[Head(run[r].todo)].delta_link = run[r].poll.new_delta
              /\ mailboxes'[Head(run[r].todo)].last_error = Null
              /\ mailboxes'[Head(run[r].todo)].last_polled_at = Now(r)]_vars

\* A poll of a mailbox whose stored delta link was d1 has committed, the
\* adapter returned no delta link, and the stored one is None now.
C26_Witness ==
    \E r \in Runs :
        /\ run[r].last.outcome = "committed"
        /\ run[r].last.mailbox \in Mailboxes
        /\ run[r].snap /= <<>>
        /\ run[r].snap[run[r].last.mailbox].delta_link = "d1"
        /\ mailboxes[run[r].last.mailbox].delta_link = None
        /\ mailboxes[run[r].last.mailbox].last_error = Null
        /\ mailboxes[run[r].last.mailbox].last_polled_at = Now(r)

\* The call of ingest_mailbox by invocation r ends in this step.
PollEnds(r) ==
    /\ run[r].pc \in {"poll", "commit"}
    /\ run'[r].pc \in {"poll", "finalize", "raised"}
    /\ run'[r].last.mailbox = Head(run[r].todo)
    /\ run'[r].outcome[Head(run[r].todo)] /= None

\* C27.  The value ingest_mailbox returns equals the number of Email rows
\* its poll committed, and total_ingested of the run grows by exactly that
\* number: in every step of an invocation in progress total_ingested grows
\* by the number of rows the step adds to emails; a poll that ends with its
\* transaction rolled back adds no row and leaves total_ingested as it was.
C27_ReturnedIsCommitted ==
    [][\A r \in Runs :
          (Active(r) /\ run'[r].id = run[r].id) =>
              /\ run'[r].total_ingested - run[r].total_ingested =
                     Len(emails') - Len(emails)
              /\ PollEnds(r) =>
                    /\ run'[r].last.stored = Len(emails') - Len(emails)
                    /\ run'[r].pc /= "raised" =>
                           run'[r].last.returned = run'[r].last.stored
                    /\ run'[r].last.outcome /= "committed" =>
                           /\ emails' = emails
                           /\ run'[r].total_ingested = run[r].total_ingested]_vars

\* An invocation has ended whose poll of A was rolled back after a failed
\* fetch and whose poll of B committed two emails: its total is 2.
C27_Witness ==
    \E r \in Runs :
        /\ run[r].pc = "done"
        /\ run[r].outcome["A"] = "fetch_failed"
        /\ run[r].outcome["B"] = "committed"
        /\ run[r].last.stored = 2
        /\ run[r].total_ingested = 2

\* C28.  Aggregate audit entry: a step in which a poll commits n > 0 new
\* emails appends to audit_log, in the same transaction, exactly one row,
\* with analyst "system", action "ingestion" and count n, for the mailbox
\* polled; a step that commits no new email, and the end of a poll whose
\* transaction is rolled back, append nothing.
C28_AggregateAuditEntry ==
    [][LET n == Len(emails') - Len(emails) IN
       /\ n > 0 =>
             /\ Len(audit_log') = Len(audit_log) + 1
             /\ SubSeq(audit_log', 1, Len(audit_log)) = audit_log
             /\ \E r \in Runs :
                   /\ CommitStep(r)
                   /\ audit_log'[Len(audit_log')] =
                          [analyst |-> "system", action |-> "ingestion",
                           count |-> n, mailbox |-> Head(run[r].todo)]
       /\ n = 0 => audit_log' = audit_log
       /\ \A r \in Runs :
             (PollEnds(r) /\ run'[r].last.outcome /= "committed") =>
                 audit_log' = audit_log /\ n = 0]_vars

\* A poll committed two emails and one row with count 2; a later poll has
\* committed no new email and no row.
C28_Witness ==
    \E r \in Runs :
        /\ run[r].last.outcome = "committed"
        /\ run[r].last.stored = 0
        /\ run[r].last.ingestible > 0
        /\ Len(emails) = 2
        /\ Len(audit_log) = 1
        /\ audit_log[1].count = 2
        /\ audit_log[1].action = "ingestion"

\* C29.  Run finalization: the step that ends an invocation which passed
\* the guards (not paused, credentials configured) leaves job_status idle,
\* job_last_run the time of completion, and job_error_message null if the
\* error list of the invocation is empty and otherwise the errors joined by
\* "; " and cut to 512 characters.
C29_RunFinalized ==
    [][\A r \in Runs :
          (/\ run[r].pc \in {"poll", "commit", "finalize"}
           /\ run'[r].pc \in {"done", "raised"}) =>
              /\ app_settings'.job_status = "idle"
              /\ app_settings'.job_last_run = Now(r)
              /\ app_settings'.job_error_message =
                     IF run'[r].errors = <<>> THEN Null
                     ELSE JoinErrors(run'[r].errors)]_vars

\* The rows of emails with remote id g in table t.
RowsOf(t, g) == {k \in 1..Len(t) : t[k].graph_message_id = g}

\* C30.  Partial progress under interruption: the step that interrupts an
\* invocation changes no table and no mailbox row, so what the mailboxes
\* polled so far committed stays and the mailbox being polled leaves no
\* record and keeps its delta link; rows are never removed afterwards and a
\* mailbox row changes only when a poll of it commits; and every poll that
\* commits later leaves each message of its batch that can be persisted
\* stored exactly once, adding rows only for remote ids not stored before.
C30_PartialProgress ==
    /\ [](\A i, j \in 1..Len(emails) :
             emails[i].graph_message_id = emails[j].graph_message_id => i = j)
    /\ [][/\ \A r \in Runs :
                (Active(r) /\ run'[r].pc = "cancelled") =>
                    /\ TablesUnchanged
                    /\ mailboxes' = mailboxes
                    /\ run'[r].poll.pending = <<>>
          /\ Len(emails') >= Len(emails)
          /\ SubSeq(emails', 1, Len(emails)) = emails
          /\ SubSeq(threat_indicators', 1, Len(threat_indicators)) = threat_indicators
          /\ SubSeq(audit_trail', 1, Len(audit_trail)) = audit_trail
          /\ SubSeq(audit_log', 1, Len(audit_log)) = audit_log
          /\ \A m \in Mailboxes :
                mailboxes'[m] /= mailboxes[m] =>
                    \E r \in Runs : CommitStep(r) /\ Head(run[r].todo) = m
          /\ \A r \in Runs :
                CommitStep(r) =>
                    /\ \A i \in 1..Len(run[r].poll.batch) :
                          Ingestible(run[r].poll.batch[i]) =>
                              Cardinality(RowsOf(emails', run[r].poll.batch[i].id)) = 1
                    /\ \A k \in (Len(emails) + 1)..Len(emails') :
                          emails'[k].graph_message_id \notin StoredIds]_vars

\* The first invocation committed one email of mailbox A and was interrupted
\* before it committed B or finalized; the second invocation has polled A
\* without a new email and has committed B with one new email.
C30_Witness ==
    \E q \in Runs :
        /\ run[q].id = 2
        /\ run[q].pc = "finalize"
        /\ app_settings.job_last_run = NoTime
        /\ app_settings.job_status = "running"
        /\ run[q].outcome["A"] = "committed"
        /\ run[q].outcome["B"] = "committed"
        /\ run[q].last.again = FALSE
        /\ run[q].last.ingestible = 2
        /\ run[q].last.stored = 1
        /\ run[q].total_ingested = 1
        /\ mailboxes["B"].delta_link = "d1"
        /\ Len(emails) = 2
        /\ emails[1].mailbox_address = "A"
        /\ emails[2].mailbox_address = "B"
        /\ Len(audit_log) = 2

\* The mailboxes invocation r loaded as active, in the order it polls them.
Loaded(r) == SelectSeq(MailboxOrder, LAMBDA m : run[r].snap[m].is_active)

\* C31.  Ordering of status writes in a run: while an invocation fetches,
\* processes or commits a mailbox, job_status = running is stored already;
\* the step that writes job_status = idle together with job_last_run is
\* taken when a poll has ended, committed or failed, for every mailbox the
\* invocation loaded, and no poll is in progress; and the mailboxes are
\* polled one after another: the mailboxes whose poll has ended and the
\* mailboxes still to be polled, the one in progress first, make up the
\* loaded list in its order.
C31_StatusOrder ==
    /\ [](\A r \in Runs :
             run[r].pc \in {"poll", "msg", "blocked", "commit"} =>
                 /\ app_settings.job_status = "running"
                 /\ run[r].todo /= <<>>
                 /\ \E n \in 0..Len(Loaded(r)) :
                       /\ run[r].todo = SubSeq(Loaded(r), n + 1, Len(Loaded(r)))
                       /\ \A i \in 1..Len(Loaded(r)) :
                             (run[r].outcome[Loaded(r)[i]] /= None) <=> i <= n)
    /\ [][\A r \in Runs :
             (/\ Active(r)
              /\ run'[r].pc = "done"
              /\ app_settings'.job_last_run /= app_settings.job_last_run) =>
                 /\ app_settings'.job_status = "idle"
                 /\ app_settings'.job_last_run = Now(r)
                 /\ run[r].todo = <<>>
                 /\ run[r].poll = FreshPoll
                 /\ \A m \in Mailboxes :
                       run[r].snap[m].is_active => run[r].outcome[m] /= None]_vars

\* An invocation has written idle and its completion time after the poll of
\* A committed and the poll of B failed at the fetch.
C31_Witness ==
    \E r \in Runs :
        /\ run[r].pc = "done"
        /\ run[r].outcome["A"] = "committed"
        /\ run[r].outcome["B"] = "fetch_failed"
        /\ run[r].last.mailbox = "B"
        /\ app_settings.job_status = "idle"
        /\ app_settings.job_last_run = Now(r)

\* The page of a response that carries no next link and is reached through
\* pages that carry one.
FinalPage(pages) ==
    CHOOSE n \in 1..Len(pages) : ~pages[n].next /\ \A i \in 1..(n - 1) : pages[i].next

\* The messages of the first n pages, in page order.
RECURSIVE Concat(_, _)
Concat(pages, n) == IF n = 0 THEN <<>> ELSE Concat(pages, n - 1) \o pages[n].value

\* The messages among the first n of batch b that a poll inserts: those not
\* stored and not earlier in the batch, in the order of the batch.
RECURSIVE FirstNew(_, _)
FirstNew(b, n) ==
    IF n = 0 THEN <<>>
    ELSE IF /\ Ingestible(b[n])
            /\ b[n].id \notin StoredIds
            /\ \A j \in 1..(n - 1) : b[j].id /= b[n].id
         THEN Append(FirstNew(b, n - 1), b[n])
         ELSE FirstNew(b, n - 1)

\* C32.  Pagination in the mail source adapter: list_messages reads the
\* pages up to the first one without a next link, returns their messages
\* concatenated in page order, and returns as cursor the delta link of that
\* final page, none if it has no delta link; and the orchestrator processes
\* the messages in exactly that order: the poll works on the returned list
\* and the returned cursor, and what it has inserted after k - 1 messages are
\* the new ones among the first k - 1 messages of that list, in its order.
C32_Pagination ==
    call.fn = "list_messages" =>
        /\ call.result.messages =
               Concat(call.args.pages, FinalPage(call.args.pages))
        /\ call.result.next_delta =
               call.args.pages[FinalPage(call.args.pages)].delta
        /\ \A r \in Runs :
              run[r].pc \in {"msg", "commit"} =>
                  /\ run[r].poll.batch = call.result.messages
                  /\ run[r].poll.new_delta = call.result.next_delta
                  /\ run[r].poll.pending =
                         FirstNew(run[r].poll.batch, run[r].poll.k - 1)

\* Two pages were served: the first with a next link, a delta link and m2,
\* the final one with m1 and no delta link; the poll has processed m2 and
\* then m1 and is about to commit with no cursor.
C32_Witness ==
    \E r \in Runs :
        /\ call.fn = "list_messages"
        /\ Len(call.args.pages) = 2
        /\ call.args.pages[1].next
        /\ call.args.pages[1].delta = "d1"
        /\ call.args.pages[2].delta = None
        /\ run[r].pc = "commit"
        /\ run[r].poll.new_delta = None
        /\ Len(run[r].poll.pending) = 2
        /\ run[r].poll.pending[1].id = "m2"
        /\ run[r].poll.pending[2].id = "m1"
        /\ call.args.pages[1].value = <<run[r].poll.pending[1]>>
        /\ call.args.pages[2].value = <<run[r].poll.pending[2]>>

\* C33.  A pause requested while a run is in progress is not lost: once
\* job_status = paused is stored, the only step that changes job_status is
\* resume_job, which writes idle and is no step of an invocation.
C33_PauseKept ==
    [][(/\ app_settings.job_status = "paused"
        /\ app_settings'.job_status /= "paused") =>
           /\ app_settings'.job_status = "idle"
           /\ run' = run
           /\ nruns' = nruns]_vars

\* C34.  The heuristic classifier returns at least one reasoning line, for
\* every input and every pair of thresholds with 0 <= low < high <= 1, the
\* low threshold 0 included.
C34_ReasoningNonEmpty ==
    (/\ call.fn = "classify"
     /\ Ordered([high |-> call.args.high_threshold,
                 low |-> call.args.low_threshold])) =>
        Len(call.result.reasoning) >= 1

\* C35.  Every domain extract_indicators returns is the lower-cased host of
\* a URL of the URL list it returns, for every body, bodies with more than
\* 50 distinct URLs included.
C35_DomainsOfReturnedUrls ==
    call.fn = "extract_indicators" =>
        \A i \in 1..Len(call.result.domains) :
            \E j \in 1..Len(call.result.urls) :
                /\ call.result.urls[j].host /= 0
                /\ LowerHost(call.result.urls[j].host) = call.result.domains[i]

\* C36.  Review status only moves forward: an email is inserted as pending;
\* no step takes an email back to pending or an overridden email to
\* reviewed; a step that leaves an email reviewed and changes it found it
\* pending, so reviewed and overridden emails are untouched by bulk_review;
\* and bulk_review reports, with one audit_log row each, exactly the emails
\* it changed.
C36_ReviewForward ==
    [][/\ \A i \in 1..Len(emails') :
             i > Len(emails) => emails'[i].review_status = "pending"
       /\ \A i \in 1..Len(emails) :
             /\ emails[i].review_status /= "pending" =>
                    emails'[i].review_status /= "pending"
             /\ emails[i].review_status = "overridden" =>
                    emails'[i].review_status = "overridden"
             /\ (emails'[i].review_status = "reviewed" /\ emails'[i] /= emails[i]) =>
                    emails[i].review_status = "pending"
       /\ Cardinality({k \in (Len(audit_log) + 1)..Len(audit_log') :
                          audit_log'[k].action = "reviewed"})
              = Cardinality({i \in 1..Len(emails) :
                                /\ emails'[i] /= emails[i]
                                /\ emails'[i].review_status = "reviewed"})]_vars

\* C37.  A fetched message with a missing or empty remote id is never
\* persisted: no stored email and no flushed message has the empty id; the
\* iteration that meets such a message changes nothing of the poll but its
\* position, so the message is counted neither as ingested nor as an error;
\* and the poll still commits: the commit step of a batch with such a
\* message stores the adapter's delta link, clears last_error and adds no
\* error to the run.
C37_EmptyIdSkipped ==
    /\ [](/\ "" \notin StoredIds
          /\ \A r \in Runs : "" \notin HeldBy(r))
    /\ [][\A r \in Runs :
             /\ (/\ run[r].pc = "msg"
                 /\ run[r].poll.batch[run[r].poll.k].id = ""
                 /\ run'[r] /= run[r]) =>
                    /\ run'[r].pc \in {"msg", "commit"}
                    /\ run'[r].poll = [run[r].poll EXCEPT !.k = @ + 1]
                    /\ run'[r].errors = run[r].errors
                    /\ run'[r].total_ingested = run[r].total_ingested
             /\ (/\ CommitStep(r)
                 /\ \E i \in 1..Len(run[r].poll.batch) : run[r].poll.batch[i].id = "") =>
                    /\ mailboxes'[Head(run[r].todo)].delta_link = run[r].poll.new_delta
                    /\ mailboxes'[Head(run[r].todo)].last_error = Null
                    /\ run'[r].errors = run[r].errors
                    /\ run'[r].last.returned = Len(emails') - Len(emails)
                    /\ "" \notin StoredIds']_vars

\* A poll has committed a batch of one message without remote id: nothing
\* is stored, nothing is counted, and the delta link d1 is stored.
C37_Witness ==
    \E r \in Runs :
        /\ run[r].last.outcome = "committed"
        /\ run[r].last.ingestible = 0
        /\ run[r].last.returned = 0
        /\ run[r].last.again
        /\ run[r].errors = <<>>
        /\ emails = <<>>
        /\ audit_log = <<>>
        /\ mailboxes[run[r].last.mailbox].delta_link = "d1"
        /\ mailboxes[run[r].last.mailbox].last_error = Null
        /\ mailboxes[run[r].last.mailbox].last_polled_at = Now(r)

\* C38.  A mailbox's stored last_polled_at changes only when a poll of that
\* mailbox commits: every step that changes it is the commit step of a poll
\* of that mailbox; and a poll that ends in the error branch (the fetch or
\* the commit failed) leaves the stored last_polled_at as it was and leaves
\* a last_error on the row.
C38_PolledAtOnlyOnCommit ==
    [][/\ \A m \in Mailboxes :
             mailboxes'[m].last_polled_at /= mailboxes[m].last_polled_at =>
                \E r \in Runs : CommitStep(r) /\ Head(run[r].todo) = m
       /\ \A r \in Runs :
             (/\ PollEnds(r)
              /\ run'[r].last.outcome \in {"fetch_failed", "commit_failed"}) =>
                 /\ mailboxes'[Head(run[r].todo)].last_polled_at =
                        mailboxes[Head(run[r].todo)].last_polled_at
                 /\ mailboxes'[Head(run[r].todo)].last_error /= Null]_vars

\* The part of C38 about last_polled_at alone: it changes only in a commit
\* step, and a poll that ends in the error branch leaves it as it was.
C38_PolledAtFrame ==
    [][/\ \A m \in Mailboxes :
             mailboxes'[m].last_polled_at /= mailboxes[m].last_polled_at =>
                \E r \in Runs : CommitStep(r) /\ Head(run[r].todo) = m
       /\ \A r \in Runs :
             (/\ PollEnds(r)
              /\ run'[r].last.outcome \in {"fetch_failed", "commit_failed"}) =>
                 mailboxes'[Head(run[r].todo)].last_polled_at =
                     mailboxes[Head(run[r].todo)].last_polled_at]_vars

====
